---- MODULE Spec2Model ----
(***************************************************************************)
(* State-machine model of the sparkxrstart WebXR viewer: the grab/throw    *)
(* hand interaction (throw-hand.js), the dynamic-object registry and the   *)
(* physics bridge (collisions.js), the character controller                *)
(* (character-physics.js), the scripted mover (robot.js), the asset        *)
(* resolver (assets.js, assets-config.js), the startup sequence (main.js)  *)
(* and the config-list loaders.                                            *)
(*                                                                         *)
(* Hand and object positions are in centimetres along one world axis,     *)
(* times in milliseconds, hand velocities in cm/s; the mover's waypoints   *)
(* are in metres, its position in millimetres, its angles in milliradians; *)
(* the character's vertical velocity is in 0.1 m/s.                        *)
(***************************************************************************)
EXTENDS Integers, Sequences, FiniteSets, TLC

VARIABLES
    handStates,      \* throw-hand.js handStates: per hand isPinching, grabbedObject, ...
    lastTime,        \* throw-hand.js lastTime
    dynamicObjects,  \* sparkScene.dynamicObjects: name -> mesh / body
    localFramePos,   \* sparkScene.localFrame.position (world offset of tracked space)
    handEvent,       \* observation: what the last updateThrowHands call did, per hand
    robot,           \* robot.js robot: TRUE once the model is loaded
    waypoints,       \* robot.js waypoints
    robotState,      \* robot.js robotState
    robotPosition,   \* robot.position, in millimetres
    robotRotationY,  \* robot.rotation.y, in milliradians
    clock,           \* the timestamp of the latest frame
    physicsWorld,    \* sparkScene.physicsWorld is non-null
    collisionmesh,   \* sparkScene.collisionmesh is non-null
    collisionsInit,  \* how the initializeCollisions promise settled
    collisionBodies, \* sparkScene.collisionMeshes.length
    sparkSceneRef,   \* character-physics.js sparkSceneRef is non-null
    physicsEnabled,  \* character-physics.js physicsEnabled
    characterBody,   \* character-physics.js characterBody is non-null
    isGrounded,      \* character-physics.js isGrounded
    characterVelY,   \* characterBody.linvel().y, in 0.1 m/s
    charEvent,       \* observation: the last character operation
    toggleNotified,  \* observation: the last togglePhysics call notified the listeners
    characterCollider, \* character-physics.js characterCollider is non-null
    characterTranslation, \* characterBody.translation(), in cm along one axis
    characterBodies, \* rigid bodies createCharacterBody has put into the world
    flags,           \* SCENE_CONFIG.flags and whether hand tracking is offered
    mainPc,          \* main.js: the statement the module evaluation has reached
    animationLoop,   \* startAnimationLoop has been called
    assetCall,       \* one asset resolution: its arguments and what the probes answer
    assetPc,         \* the probe the resolution has reached
    assetUrl,        \* the URL the resolution returned
    assetSettled,    \* how the resolver's promise settled
    listKind,        \* which config list is being loaded
    configList,      \* the entries of the config list
    loadedEntries,   \* the entries recorded by the loader
    sceneEntries,    \* the entries whose object was added to the scene
    loaderSettled,   \* how the loader's promise settled
    physicsOp,       \* observation: the last dynamic-object operation and its outcome
    bgAudio,         \* audio.js bgAudio is non-null
    bgPlaying,       \* the background audio element is playing
    audioEnabled,    \* audio.js audioEnabled
    pendingStarts,   \* toggleAudio calls awaiting startBgAudio
    audioEvent,      \* observation: the last audio operation and its outcome
    spatialConfigDone, \* initializeSpatialAudio has fetched (or failed to fetch) its config
    spatialAudioSources, \* spatial-audio.js: the configured sources and their state
    lightConfigs,    \* the entries of the lighting config, by type
    lights,          \* lighting.js lights: the entries a light was created for
    lightDebugMeshes, \* lighting.js lightDebugMeshes: entry -> mesh.visible
    lightingSettled, \* how the initializeLighting promise settled
    hudVisible,      \* hud.js hudVisible
    lastPhysicsTime, \* main.js lastPhysicsTime: << >> for null, else <<time>>
    frameStages,     \* what the latest frame callback called, in call order
    shipPc,          \* the step the ship scene's main.js is awaiting
    shipLoads,       \* each load of the ship scene: none, inflight, done, failed
    shipFrames,      \* frame callbacks the ship scene's loop has run
    pathWaypoints,   \* config.js pathWaypoints
    pathVisible,     \* config.js pathVisible
    pathSplatEdit,   \* config.js pathSplatEdit and the highlights it holds
    pathToggle,      \* the path toggle button: its icon and count
    pathOp           \* observation: the last path call and its player position

handVars == <<handStates, lastTime, dynamicObjects, localFramePos, handEvent>>

robotVars == <<robot, waypoints, robotState, robotPosition, robotRotationY, clock>>

worldVars == <<physicsWorld, collisionmesh, collisionsInit, collisionBodies>>

charVars == <<sparkSceneRef, physicsEnabled, characterBody, isGrounded,
              characterVelY, charEvent, toggleNotified,
              characterCollider, characterTranslation, characterBodies>>

mainVars == <<flags, mainPc, animationLoop>>

assetVars == <<assetCall, assetPc, assetUrl, assetSettled>>

loaderVars == <<listKind, configList, loadedEntries, sceneEntries, loaderSettled>>

objectOpVars == <<physicsOp>>

audioVars == <<bgAudio, bgPlaying, audioEnabled, pendingStarts, audioEvent,
               spatialConfigDone, spatialAudioSources>>

lightVars == <<lightConfigs, lights, lightDebugMeshes, lightingSettled, hudVisible>>

frameVars == <<lastPhysicsTime, frameStages>>

shipVars == <<shipPc, shipLoads, shipFrames>>

pathVars == <<pathWaypoints, pathVisible, pathSplatEdit, pathToggle, pathOp>>

vars == <<handStates, lastTime, dynamicObjects, localFramePos, handEvent,
          robot, waypoints, robotState, robotPosition, robotRotationY, clock,
          physicsWorld, collisionmesh, collisionsInit, collisionBodies,
          sparkSceneRef, physicsEnabled, characterBody, isGrounded,
          characterVelY, charEvent, toggleNotified,
          characterCollider, characterTranslation, characterBodies,
          flags, mainPc, animationLoop,
          assetCall, assetPc, assetUrl, assetSettled,
          listKind, configList, loadedEntries, sceneEntries, loaderSettled,
          physicsOp,
          bgAudio, bgPlaying, audioEnabled, pendingStarts, audioEvent,
          spatialConfigDone, spatialAudioSources,
          lightConfigs, lights, lightDebugMeshes, lightingSettled, hudVisible,
          lastPhysicsTime, frameStages, shipPc, shipLoads, shipFrames,
          pathWaypoints, pathVisible, pathSplatEdit, pathToggle, pathOp>>

\* What the actions of one subsystem leave alone
notHandVars == <<robotVars, worldVars, charVars, mainVars, assetVars, loaderVars, objectOpVars, audioVars,
                   lightVars, frameVars, shipVars, pathVars>>

notRobotVars == <<handVars, worldVars, charVars, mainVars, assetVars, loaderVars, objectOpVars, audioVars,
                   lightVars, frameVars, shipVars, pathVars>>

Abs(x) == IF x < 0 THEN -x ELSE x

RECURSIVE SumSeq(_)
SumSeq(s) == IF s = <<>> THEN 0 ELSE Head(s) + SumSeq(Tail(s))

(***************************************************************************)
(* throw-hand.js                                                           *)
(***************************************************************************)
GRAB_DISTANCE == 15
PINCH_THRESHOLD == 4
VELOCITY_HISTORY_SIZE == 5
THROW_MULTIPLIER == 2

\* updateThrowHands returns early unless 0 < deltaTime <= 0.5 s
MaxDeltaTime == 500

\* A plausible slip: the loop visits the right hand first.
HandsRightFirst == <<"right", "left">>

\* for (const handName of ['left', 'right'])
Hands == <<"left", "right">>

HandNames == {"left", "right"}

NoObject == "null"

\* Registry keys in Map insertion order; "ghost" is an entry registered
\* without a mesh (addDynamicObject stores whatever mesh it is given).
RegistryOrder == <<"a", "ghost", "b">>

Names == {RegistryOrder[i] : i \in 1..Len(RegistryOrder)}

\* Where a Dynamic body comes to rest when the physics engine moves it.
RestPosition(name) == IF name = "a" THEN 10 ELSE IF name = "b" THEN 25 ELSE 20

\* A velocity: set by the code to the rational num/den, or whatever the
\* engine computed in a step (known = FALSE).
Vel(n, d) == [known |-> TRUE, num |-> n, den |-> d]

ZeroVel == Vel(0, 1)

EngineVel == [known |-> FALSE, num |-> 0, den |-> 1]

\* An angular velocity: zero, the (Math.random() - 0.5) * 5 spin of a
\* release, or whatever the engine computed in a step.
ZeroSpin == "zero"

RandomSpin == "random"

EngineSpin == "engine"

\* Tracked joints of one hand in local-frame coordinates: the hand may be
\* absent, and each of the thumb tip (t3) and index tip (i4) may be missing.
Joint(x) == [has |-> TRUE, x |-> x]

NoJoint == [has |-> FALSE, x |-> 0]

NoHand == [present |-> FALSE, t3 |-> NoJoint, i4 |-> NoJoint]

Hand(t, i) == [present |-> TRUE, t3 |-> t, i4 |-> i]

HandInputs ==
    { NoHand,
      Hand(NoJoint, Joint(0)),
      Hand(Joint(0), Joint(0)),
      Hand(Joint(-3), Joint(3)),
      Hand(Joint(19), Joint(21)),
      Hand(Joint(18), Joint(22)) }

\* time - lastTime of one frame: a normal frame, and the two kinds the
\* deltaTime test rejects (a repeated timestamp, a stall of more than 0.5 s)
FrameTimes == {250}

RejectedDeltas == {0, 750}

\* The clock stops after MaxFrames frame times.
MaxFrames == 3

MaxTime == MaxFrames * 250

InitHandState ==
    [ isPinching |-> FALSE,
      grabbedObject |-> NoObject,
      velocityHistory |-> <<>>,
      lastPosition |-> 0,
      pinchPosition |-> 0 ]

InitObject(hasMesh, pos) ==
    [ mesh |-> hasMesh,
      meshPosition |-> pos,
      body |-> TRUE,
      bodyType |-> "Dynamic",
      translation |-> pos,
      nextKinematic |-> pos,
      linvel |-> ZeroVel,
      angvel |-> ZeroSpin ]

\* getPinchPosition: midpoint of thumb tip and index tip, none if a joint is missing
HasPinchPosition(hand) == hand.present /\ hand.t3.has /\ hand.i4.has

getPinchPosition(hand) == (hand.t3.x + hand.i4.x) \div 2

\* isPinching: thumb-to-index distance below PINCH_THRESHOLD
isPinching(hand) ==
    /\ hand.present /\ hand.t3.has /\ hand.i4.has
    /\ Abs(hand.t3.x - hand.i4.x) < PINCH_THRESHOLD

\* localFrame.localToWorld
localToWorld(frame, p) == p + frame

\* A plausible slip: the scan forgets to exclude what a hand already holds.
SkipsObjectNoHeldCheck(hs, objs, name) ==
    ~objs[name].mesh \/ ~objs[name].body

\* The skip test of findNearestGrabbable's forEach callback
SkipsObject(hs, objs, name) ==
    \/ ~objs[name].mesh \/ ~objs[name].body
    \/ hs["left"].grabbedObject = name
    \/ hs["right"].grabbedObject = name

\* findNearestGrabbable: a forEach over the registry in insertion order
\* that keeps the entry strictly nearer than the best distance so far.
RECURSIVE NearestFrom(_, _, _, _, _, _)
NearestFrom(hs, objs, position, i, nearest, nearestDistance) ==
    IF i > Len(RegistryOrder) THEN nearest
    ELSE LET name == RegistryOrder[i]
             distance == Abs(position - objs[name].meshPosition)
         IN  IF SkipsObject(hs, objs, name)
               THEN NearestFrom(hs, objs, position, i + 1, nearest, nearestDistance)
             ELSE IF distance < nearestDistance
               THEN NearestFrom(hs, objs, position, i + 1, name, distance)
             ELSE NearestFrom(hs, objs, position, i + 1, nearest, nearestDistance)

\* A plausible slip: the scan stops at the first entry in range.
RECURSIVE FirstInRange(_, _, _, _)
FirstInRange(hs, objs, position, i) ==
    IF i > Len(RegistryOrder) THEN NoObject
    ELSE IF ~SkipsObject(hs, objs, RegistryOrder[i])
            /\ Abs(position - objs[RegistryOrder[i]].meshPosition) < GRAB_DISTANCE
      THEN RegistryOrder[i]
    ELSE FirstInRange(hs, objs, position, i + 1)

findFirstGrabbable(hs, objs, position) == FirstInRange(hs, objs, position, 1)

findNearestGrabbable(hs, objs, position) ==
    NearestFrom(hs, objs, position, 1, NoObject, GRAB_DISTANCE)

\* grabObject: the body becomes kinematic with zero velocities, the hand
\* records the target and forgets its velocity history.
grabObject(st, handName, target) ==
    [ hs |-> [st.hs EXCEPT ![handName].grabbedObject = target,
                           ![handName].velocityHistory = <<>>],
      objs |-> [st.objs EXCEPT ![target].bodyType = "KinematicPositionBased",
                               ![target].linvel = ZeroVel,
                               ![target].angvel = ZeroSpin] ]

\* A plausible slip: the mean is not scaled by the throw multiplier.
ThrowVelocityUnscaled(history) ==
    IF Len(history) > 0 THEN Vel(SumSeq(history), Len(history)) ELSE ZeroVel

\* The throw velocity of releaseObject: zero for an empty history, else
\* the mean of the samples times THROW_MULTIPLIER.
ThrowVelocity(history) ==
    IF Len(history) > 0
      THEN Vel(SumSeq(history) * THROW_MULTIPLIER, Len(history))
      ELSE ZeroVel

\* A plausible slip: the body type is not restored on release.
releaseObjectKeepsKinematic(st, handName) ==
    LET state == st.hs[handName]
        name == state.grabbedObject
    IN  IF name = NoObject THEN st
        ELSE [ hs |-> [st.hs EXCEPT ![handName].grabbedObject = NoObject,
                                    ![handName].velocityHistory = <<>>],
               objs |-> [st.objs EXCEPT ![name].linvel = ThrowVelocity(state.velocityHistory),
                                        ![name].angvel = RandomSpin] ]

\* releaseObject
releaseObject(st, handName) ==
    LET state == st.hs[handName]
        name == state.grabbedObject
    IN  IF name = NoObject THEN st
        ELSE [ hs |-> [st.hs EXCEPT ![handName].grabbedObject = NoObject,
                                    ![handName].velocityHistory = <<>>],
               objs |-> [st.objs EXCEPT ![name].bodyType = "Dynamic",
                                        ![name].linvel = ThrowVelocity(state.velocityHistory),
                                        ![name].angvel = RandomSpin] ]

\* A plausible slip: the oldest sample is never dropped.
PushVelocityUnbounded(history, velocity) == Append(history, velocity)

\* The velocity sample pushed by a frame, and the rolling history
PushVelocity(history, velocity) ==
    LET pushed == Append(history, velocity)
    IN  IF Len(pushed) > VELOCITY_HISTORY_SIZE THEN Tail(pushed) ELSE pushed

NoEvent == [kind |-> "none", target |-> NoObject, history |-> <<>>]

Event(k, t, h) == [kind |-> k, target |-> t, history |-> h]

\* The steps of one iteration of updateThrowHands' loop over ['left',
\* 'right'].  st = [hs, objs, ev]; pos is the world pinch position.

\* The velocity sample (only when the previous position is non-zero) and the
\* stored positions; dt is the frame's time - lastTime in ms.
TrackVelocity(st, handName, pos, dt) ==
    LET state == st.hs[handName]
        history == IF state.lastPosition * state.lastPosition > 0
                     THEN PushVelocity(state.velocityHistory,
                                       ((pos - state.lastPosition) * 1000) \div dt)
                     ELSE state.velocityHistory
    IN  [st EXCEPT !.hs[handName].velocityHistory = history,
                   !.hs[handName].lastPosition = pos,
                   !.hs[handName].pinchPosition = pos]

\* The search and grab of a pinch that started with an empty hand
GrabNearest(st, handName, pos) ==
    LET target == findNearestGrabbable(st.hs, st.objs, pos)
        grabbed == grabObject([hs |-> st.hs, objs |-> st.objs], handName, target)
    IN  IF target # NoObject
          THEN [ hs |-> grabbed.hs, objs |-> grabbed.objs,
                 ev |-> [st.ev EXCEPT ![handName] = Event("grab", target, <<>>)] ]
          ELSE [st EXCEPT !.ev[handName] = Event("miss", NoObject, <<>>)]

\* A plausible slip: the grab is tried in every pinching frame, not only
\* in the frame the pinch starts.
PinchStartedEveryFrame(st, handName, pos, currentlyPinching) ==
    IF currentlyPinching
      THEN IF st.hs[handName].grabbedObject = NoObject
             THEN GrabNearest([st EXCEPT !.hs[handName].isPinching = TRUE], handName, pos)
             ELSE [st EXCEPT !.hs[handName].isPinching = TRUE]
      ELSE st

\* Pinch started
PinchStarted(st, handName, pos, currentlyPinching) ==
    IF currentlyPinching /\ ~st.hs[handName].isPinching
      THEN IF st.hs[handName].grabbedObject = NoObject
             THEN GrabNearest([st EXCEPT !.hs[handName].isPinching = TRUE], handName, pos)
             ELSE [st EXCEPT !.hs[handName].isPinching = TRUE,
                             !.ev[handName] =
                                 Event("keep", st.hs[handName].grabbedObject, <<>>)]
      ELSE st

\* A plausible slip: the end of a pinch does not release what is held.
PinchEndedKeepsObject(st, handName, currentlyPinching) ==
    IF ~currentlyPinching /\ st.hs[handName].isPinching
      THEN [st EXCEPT !.hs[handName].isPinching = FALSE,
                      !.ev[handName] = Event("unpinch", NoObject, <<>>)]
      ELSE st

\* Pinch ended
PinchEnded(st, handName, currentlyPinching) ==
    LET state == st.hs[handName]
        hs3 == [st.hs EXCEPT ![handName].isPinching = FALSE]
        released == releaseObject([hs |-> hs3, objs |-> st.objs], handName)
    IN  IF ~currentlyPinching /\ state.isPinching
          THEN IF state.grabbedObject # NoObject
                 THEN [ hs |-> released.hs, objs |-> released.objs,
                        ev |-> [st.ev EXCEPT ![handName] =
                                  Event("release", state.grabbedObject,
                                        state.velocityHistory)] ]
                 ELSE [st EXCEPT !.hs = hs3,
                                 !.ev[handName] = Event("unpinch", NoObject, <<>>)]
          ELSE st

\* Update grabbed object position
FollowHand(st, handName, pos) ==
    LET holding == st.hs[handName].grabbedObject
        ev == IF st.ev[handName] = NoEvent
                THEN [st.ev EXCEPT ![handName] = Event("track", holding, <<>>)]
                ELSE st.ev
    IN  IF holding # NoObject
          THEN [st EXCEPT !.objs[holding].nextKinematic = pos, !.ev = ev]
          ELSE [st EXCEPT !.ev = ev]

\* A plausible slip: a hand without a pinch position is treated as a hand
\* that stopped pinching.
ProcessHandLostIsOpen(st, handName, input, frame, dt) ==
    IF ~HasPinchPosition(input)
      THEN [st EXCEPT !.hs[handName].isPinching = FALSE,
                      !.ev[handName] = Event("skipped", NoObject, <<>>)]
      ELSE FollowHand(
             PinchEnded(
               PinchStarted(
                 TrackVelocity(st, handName,
                               localToWorld(frame, getPinchPosition(input)), dt),
                 handName, localToWorld(frame, getPinchPosition(input)),
                 isPinching(input)),
               handName, isPinching(input)),
             handName, localToWorld(frame, getPinchPosition(input)))

\* One iteration of the loop; input is the hand's tracked joints.
ProcessHand(st, handName, input, frame, dt) ==
    IF ~HasPinchPosition(input)
      THEN [st EXCEPT !.ev[handName] = Event("skipped", NoObject, <<>>)]
      ELSE FollowHand(
             PinchEnded(
               PinchStarted(
                 TrackVelocity(st, handName,
                               localToWorld(frame, getPinchPosition(input)), dt),
                 handName, localToWorld(frame, getPinchPosition(input)),
                 isPinching(input)),
               handName, isPinching(input)),
             handName, localToWorld(frame, getPinchPosition(input)))

\* updateThrowHands(sparkScene, time): nothing happens outside an XR session;
\* otherwise lastTime is stored, and the hands are processed left then right
\* when 0 < deltaTime <= 0.5 s.
UpdateThrowHandsUntil(limit, presenting, time, inputs) ==
    /\ time >= lastTime
    /\ time <= limit
    /\ UNCHANGED localFramePos
    /\ UNCHANGED notHandVars
    /\ IF ~presenting
         THEN UNCHANGED <<handStates, lastTime, dynamicObjects, handEvent>>
       ELSE
         LET dt == time - lastTime
             st0 == [ hs |-> handStates, objs |-> dynamicObjects,
                      ev |-> [h \in HandNames |-> NoEvent] ]
             st1 == ProcessHand(st0, Hands[1], inputs[Hands[1]], localFramePos, dt)
             st2 == ProcessHand(st1, Hands[2], inputs[Hands[2]], localFramePos, dt)
         IN  /\ lastTime' = time
             /\ IF dt <= 0 \/ dt > MaxDeltaTime
                  THEN UNCHANGED <<handStates, dynamicObjects, handEvent>>
                  ELSE /\ handStates' = st2.hs
                       /\ dynamicObjects' = st2.objs
                       /\ handEvent' = st2.ev

UpdateThrowHands(presenting, time, inputs) ==
    UpdateThrowHandsUntil(MaxTime, presenting, time, inputs)

(***************************************************************************)
(* collisions.js: the physics step and the visual sync of a frame          *)
(***************************************************************************)
\* updateCollisions then updateDynamicObjects (main.js frame callback): the
\* engine moves a kinematic body to its commanded target and a Dynamic body
\* wherever the simulation takes it, and recomputes the velocities; each
\* entry with a mesh and a body then copies the body translation to the mesh.
StepObject(o, dest) ==
    LET t == IF o.bodyType = "KinematicPositionBased" THEN o.nextKinematic ELSE dest
    IN  [o EXCEPT !.translation = t,
                  !.meshPosition = IF o.mesh THEN t ELSE o.meshPosition,
                  !.linvel = EngineVel,
                  !.angvel = EngineSpin]

PhysicsFrame ==
    /\ \E moved \in SUBSET Names :
          dynamicObjects' = [n \in Names |->
              StepObject(dynamicObjects[n],
                         IF n \in moved THEN RestPosition(n)
                         ELSE dynamicObjects[n].translation)]
    /\ handEvent' = [h \in HandNames |-> NoEvent]
    /\ UNCHANGED <<handStates, lastTime, localFramePos>>
    /\ UNCHANGED notHandVars

\* A frame outside an XR session (or without hand tracking)
FrameNotPresenting ==
    \E dt \in FrameTimes :
        UpdateThrowHands(FALSE, lastTime + dt, [h \in HandNames |-> NoHand])

\* A frame whose deltaTime is rejected: only lastTime changes
FrameRejected ==
    \E dt \in RejectedDeltas :
        UpdateThrowHands(TRUE, lastTime + dt, [h \in HandNames |-> NoHand])

\* A frame that processes both hands
FrameTracked ==
    \E dt \in FrameTimes, inputs \in [HandNames -> HandInputs] :
        UpdateThrowHands(TRUE, lastTime + dt, inputs)

InitHands ==
    /\ handStates = [h \in HandNames |-> InitHandState]
    /\ lastTime = 0
    /\ dynamicObjects = [n \in Names |->
          IF n = "a" THEN InitObject(TRUE, 10)
          ELSE IF n = "b" THEN InitObject(TRUE, 35)
          ELSE InitObject(FALSE, 20)]
    /\ localFramePos = 0
    /\ handEvent = [h \in HandNames |-> NoEvent]

(***************************************************************************)
(* robot.js: the scripted mover                                            *)
(***************************************************************************)
movementSpeed == 2
pauseDuration == 1000
rotationDuration == 1500

\* Math.PI and 2 * Math.PI in milliradians, and the 0.1 rad threshold
PiMrad == 3142
TwoPiMrad == 6283
RotationThreshold == 100

\* Waypoints are points <<x, z>> of the horizontal plane, in metres.
Pt(x, z) == <<x, z>>

\* The waypoint lists a robot config may hold; the last one is the
\* fallback of a config that failed to load.
WaypointLists ==
    { <<Pt(0, 0), Pt(0, 2)>>,
      <<Pt(0, 0), Pt(0, 1), Pt(0, 3)>>,
      <<Pt(0, 0), Pt(0, 1), Pt(1, 1), Pt(1, 0)>>,
      <<>>,
      <<Pt(-1, -13)>> }

NoPosition == [x |-> 0, z |-> 0, nan |-> FALSE]

At(p) == [x |-> p[1] * 1000, z |-> p[2] * 1000, nan |-> FALSE]

NaNPosition == [x |-> 0, z |-> 0, nan |-> TRUE]

\* Math.atan2(x, z) in milliradians, for the eight compass directions
Atan2Mrad(x, z) ==
    IF x = 0 THEN (IF z >= 0 THEN 0 ELSE PiMrad)
    ELSE IF z = 0 THEN (IF x > 0 THEN 1571 ELSE -1571)
    ELSE IF x > 0 THEN (IF z > 0 THEN 785 ELSE 2356)
    ELSE (IF z > 0 THEN -785 ELSE -2356)

\* calculateRotationToTarget(from, to), positions in millimetres
calculateRotationToTarget(from, to) == Atan2Mrad(to.x - from.x, to.z - from.z)

\* The integer square root, found by its hundreds first
IsqrtHundreds(m) ==
    CHOOSE h \in 0..80 : (100 * h) * (100 * h) <= m /\ m < (100 * h + 100) * (100 * h + 100)

\* The r with r * r <= n < (r + 1) * (r + 1), for n below 8100 * 8100
Isqrt(n) ==
    CHOOSE r \in UNION {{q \in (100 * IsqrtHundreds(m))..(100 * IsqrtHundreds(m) + 99) :
                            q * q <= m /\ m < (q + 1) * (q + 1)} : m \in {n}} :
        TRUE

\* Vector3.distanceTo in millimetres (integer part)
distanceTo(a, b) == Isqrt((a.x - b.x) * (a.x - b.x) + (a.z - b.z) * (a.z - b.z))

\* A plausible slip: the phase ends only after more than its duration.
ProgressLate(elapsed, duration) ==
    IF duration = 0 THEN (IF elapsed = 0 THEN -1 ELSE 1000)
    ELSE IF elapsed > duration THEN 1000
    ELSE IF elapsed = duration THEN 999
    ELSE (elapsed * 1000) \div duration

\* Math.min(1, elapsed / duration) in thousandths; -1 stands for NaN (0 / 0)
Progress(elapsed, duration) ==
    IF duration = 0 THEN (IF elapsed = 0 THEN -1 ELSE 1000)
    ELSE IF elapsed >= duration THEN 1000
    ELSE (elapsed * 1000) \div duration

\* 0.5 - 0.5 * Math.cos(progress * Math.PI) in thousandths, tabulated at the
\* fifths, thirds and halves; linear in between
Eased(progress) ==
    CASE progress = 200 -> 95
      [] progress = 333 -> 250
      [] progress = 400 -> 345
      [] progress = 500 -> 500
      [] progress = 600 -> 655
      [] progress = 666 -> 750
      [] progress = 800 -> 905
      [] OTHER -> progress

\* Vector3.lerpVectors, NaN when the factor is NaN
lerpVectors(a, b, eased) ==
    IF eased < 0 THEN NaNPosition
    ELSE [ x |-> a.x + ((b.x - a.x) * eased) \div 1000,
           z |-> a.z + ((b.z - a.z) * eased) \div 1000,
           nan |-> FALSE ]

\* travelTime = distance / movementSpeed * 1000, distance in millimetres
TravelTime(from, to) == distanceTo(from, to) \div movementSpeed

\* The heading delta of the 'paused' case
NormalizedDiff(startRotation, targetRotation) ==
    LET angleDiff == Abs(targetRotation - startRotation)
        wrapped == Abs(angleDiff - TwoPiMrad)
    IN  IF angleDiff < wrapped THEN angleDiff ELSE wrapped

\* A plausible slip: the rotation phase is always skipped.
NeedsRotationNever(startRotation, targetRotation) == FALSE

NeedsRotation(startRotation, targetRotation) ==
    NormalizedDiff(startRotation, targetRotation) > RotationThreshold

\* A plausible slip: the index stops at the last waypoint instead of wrapping.
NextIndexClamped(index, n) == IF index + 1 < n THEN index + 1 ELSE index

\* (currentWaypointIndex + 1) % waypoints.length
NextIndex(index, n) == (index + 1) % n

InitRobotState ==
    [ phase |-> "paused",
      currentWaypointIndex |-> 0,
      phaseStartTime |-> 0,
      startPosition |-> NoPosition,
      targetPosition |-> NoPosition,
      startRotation |-> 0,
      targetRotation |-> 0 ]

\* Waypoint i of the list, 0-based as in the source
Waypoint(ws, i) == At(ws[i + 1])

\* A plausible slip: the next phase is started at the time the pause was
\* due to end, so that a late call catches up.
UpdatePausedFromDeadline(rs, ws, rot, time) ==
    LET position == rs.startPosition
        nextWaypoint == Waypoint(ws, NextIndex(rs.currentWaypointIndex, Len(ws)))
        targetRotation == calculateRotationToTarget(position, nextWaypoint)
        due == rs.phaseStartTime + pauseDuration
        rs1 == [rs EXCEPT !.startRotation = rot, !.targetRotation = targetRotation]
    IN  IF Progress(time - rs.phaseStartTime, pauseDuration) < 1000
          THEN [rs |-> rs, pos |-> position, rot |-> rot]
        ELSE IF NeedsRotation(rot, targetRotation)
          THEN [ rs |-> [rs1 EXCEPT !.phase = "rotating", !.phaseStartTime = due],
                 pos |-> position, rot |-> rot ]
        ELSE [ rs |-> [rs1 EXCEPT !.phase = "moving", !.phaseStartTime = due,
                                  !.startPosition = position,
                                  !.targetPosition = nextWaypoint],
               pos |-> position, rot |-> targetRotation ]

\* The 'paused' case of updateRobot
UpdatePaused(rs, ws, rot, time) ==
    LET position == rs.startPosition
        nextWaypoint == Waypoint(ws, NextIndex(rs.currentWaypointIndex, Len(ws)))
        targetRotation == calculateRotationToTarget(position, nextWaypoint)
        rs1 == [rs EXCEPT !.startRotation = rot, !.targetRotation = targetRotation]
    IN  IF Progress(time - rs.phaseStartTime, pauseDuration) < 1000
          THEN [rs |-> rs, pos |-> position, rot |-> rot]
        ELSE IF NeedsRotation(rot, targetRotation)
          THEN [ rs |-> [rs1 EXCEPT !.phase = "rotating", !.phaseStartTime = time],
                 pos |-> position, rot |-> rot ]
        ELSE [ rs |-> [rs1 EXCEPT !.phase = "moving", !.phaseStartTime = time,
                                  !.startPosition = position,
                                  !.targetPosition = nextWaypoint],
               pos |-> position, rot |-> targetRotation ]

\* The 'rotating' case of updateRobot
UpdateRotating(rs, ws, rot, time) ==
    LET rotationProgress == Progress(time - rs.phaseStartTime, rotationDuration)
        easedRotation == Eased(rotationProgress)
        rot1 == rs.startRotation
                  + ((rs.targetRotation - rs.startRotation) * easedRotation) \div 1000
    IN  IF rotationProgress >= 1000
          THEN [ rs |-> [rs EXCEPT
                           !.phase = "moving", !.phaseStartTime = time,
                           !.startPosition = Waypoint(ws, rs.currentWaypointIndex),
                           !.targetPosition =
                               Waypoint(ws, NextIndex(rs.currentWaypointIndex, Len(ws)))],
                 pos |-> rs.startPosition, rot |-> rot1 ]
          ELSE [rs |-> rs, pos |-> rs.startPosition, rot |-> rot1]

\* A plausible slip: the arrival does not advance the waypoint index.
UpdateMovingKeepsIndex(rs, ws, rot, time) ==
    LET travelTime == TravelTime(rs.startPosition, rs.targetPosition)
        moveProgress == Progress(time - rs.phaseStartTime, travelTime)
        easedProgress == IF moveProgress < 0 THEN -1 ELSE Eased(moveProgress)
    IN  IF moveProgress >= 1000
          THEN [ rs |-> [rs EXCEPT
                           !.startPosition = rs.targetPosition,
                           !.phase = "paused", !.phaseStartTime = time],
                 pos |-> rs.targetPosition, rot |-> rs.targetRotation ]
          ELSE [ rs |-> rs,
                 pos |-> lerpVectors(rs.startPosition, rs.targetPosition, easedProgress),
                 rot |-> rs.targetRotation ]

\* The 'moving' case of updateRobot
UpdateMoving(rs, ws, rot, time) ==
    LET travelTime == TravelTime(rs.startPosition, rs.targetPosition)
        moveProgress == Progress(time - rs.phaseStartTime, travelTime)
        easedProgress == IF moveProgress < 0 THEN -1 ELSE Eased(moveProgress)
    IN  IF moveProgress >= 1000
          THEN [ rs |-> [rs EXCEPT
                           !.currentWaypointIndex =
                               NextIndex(rs.currentWaypointIndex, Len(ws)),
                           !.startPosition = rs.targetPosition,
                           !.phase = "paused", !.phaseStartTime = time],
                 pos |-> rs.targetPosition, rot |-> rs.targetRotation ]
          ELSE [ rs |-> rs,
                 pos |-> lerpVectors(rs.startPosition, rs.targetPosition, easedProgress),
                 rot |-> rs.targetRotation ]

\* updateRobot(time)
updateRobot(rs, ws, rot, time) ==
    IF rs.phase = "paused" THEN UpdatePaused(rs, ws, rot, time)
    ELSE IF rs.phase = "rotating" THEN UpdateRotating(rs, ws, rot, time)
    ELSE UpdateMoving(rs, ws, rot, time)

\* Frame timestamps advance by one, two or seven ticks of 500 ms.
Gaps == {1, 2, 7}

MaxTicks == 24

UpdateRobot(time) ==
    /\ time > clock
    /\ time <= MaxTicks * 500
    /\ clock' = time
    /\ IF ~robot \/ Len(waypoints) = 0
         THEN UNCHANGED <<robot, waypoints, robotState, robotPosition, robotRotationY>>
         ELSE LET r == updateRobot(robotState, waypoints, robotRotationY, time)
              IN  /\ robotState' = r.rs
                  /\ robotPosition' = r.pos
                  /\ robotRotationY' = r.rot
                  /\ UNCHANGED <<robot, waypoints>>
    /\ UNCHANGED notRobotVars

RobotFrame == \E k \in Gaps : UpdateRobot(clock + k * 500)

\* initializeRobot: the config sets the waypoints (a failed config load
\* falls back to one default waypoint), then the model load either fails,
\* leaving robot null, or places the robot paused at the first waypoint
\* facing the second.
InitializeRobot(ws, modelLoads) ==
    /\ ~robot
    /\ waypoints = <<>>
    /\ waypoints' = ws
    /\ robot' = modelLoads
    /\ IF modelLoads
         THEN LET start == IF Len(ws) > 0 THEN Waypoint(ws, 0) ELSE At(Pt(-1, -13))
                  facing == IF Len(ws) > 1
                              THEN calculateRotationToTarget(Waypoint(ws, 0), Waypoint(ws, 1))
                              ELSE robotState.targetRotation
              IN  /\ robotPosition' = start
                  /\ robotState' = [robotState EXCEPT
                        !.phase = "paused", !.currentWaypointIndex = 0,
                        !.phaseStartTime = clock,
                        !.startPosition = start, !.targetPosition = start,
                        !.targetRotation = facing]
                  /\ robotRotationY' = IF Len(ws) > 1 THEN facing ELSE robotRotationY
         ELSE UNCHANGED <<robotState, robotPosition, robotRotationY>>
    /\ UNCHANGED clock
    /\ UNCHANGED notRobotVars

LoadRobot == \E ws \in WaypointLists, modelLoads \in BOOLEAN : InitializeRobot(ws, modelLoads)

\* updateRobot under timestamps that grow without bound. updateRobot reads
\* its timestamp only as time - robotState.phaseStartTime, so the endless run
\* counts time from the start of the current phase: after the call both the
\* timestamp and phaseStartTime are taken less phaseStartTime.
UpdateRobotRelative(time) ==
    /\ time > clock
    /\ IF ~robot \/ Len(waypoints) = 0
         THEN UNCHANGED <<robot, waypoints, robotState, robotPosition, robotRotationY,
                          clock>>
         ELSE LET r == updateRobot(robotState, waypoints, robotRotationY, time)
              IN  /\ robotState' = [r.rs EXCEPT !.phaseStartTime = 0]
                  /\ clock' = time - r.rs.phaseStartTime
                  /\ robotPosition' = r.pos
                  /\ robotRotationY' = r.rot
                  /\ UNCHANGED <<robot, waypoints>>
    /\ UNCHANGED notRobotVars

\* The time between two frames of the endless run, in ms: a quarter, a
\* half, one and seven half seconds
RelativeGaps == {250, 500, 1000, 3500}

RobotFrameRelative == \E gap \in RelativeGaps : UpdateRobotRelative(clock + gap)

InitRobot ==
    /\ robot = FALSE
    /\ waypoints = <<>>
    /\ robotState = InitRobotState
    /\ robotPosition = NoPosition
    /\ robotRotationY = 0
    /\ clock = 0

(***************************************************************************)
(* collisions.js: the physics world                                        *)
(***************************************************************************)
\* initializeCollisions: the world is stored on the scene as soon as Rapier
\* is initialized, then the collision mesh is loaded; a load error rejects.
initializeCollisions(rapierInits, meshLoads) ==
    IF ~rapierInits
      THEN [physicsWorld |-> FALSE, collisionmesh |-> FALSE, settled |-> "rejected"]
    ELSE IF ~meshLoads
      THEN [physicsWorld |-> TRUE, collisionmesh |-> FALSE, settled |-> "rejected"]
    ELSE [physicsWorld |-> TRUE, collisionmesh |-> TRUE, settled |-> "resolved"]

InitializeCollisions(rapierInits, meshLoads) ==
    LET r == initializeCollisions(rapierInits, meshLoads)
    IN  /\ collisionsInit = "idle"
        /\ physicsWorld' = r.physicsWorld
        /\ collisionmesh' = r.collisionmesh
        /\ collisionsInit' = r.settled
        /\ UNCHANGED collisionBodies

\* The number of meshes in the collision model
CollisionMeshCount == 1

\* createCollisionPhysicsBodies: one fixed body per mesh of the collision
\* model, pushed onto sparkScene.collisionMeshes; nothing without a world
\* or without a collision model
createCollisionPhysicsBodies(world, mesh, bodies) ==
    IF ~world \/ ~mesh THEN bodies ELSE bodies + CollisionMeshCount

InitWorld ==
    /\ physicsWorld = FALSE
    /\ collisionmesh = FALSE
    /\ collisionsInit = "idle"
    /\ collisionBodies = 0

(***************************************************************************)
(* character-physics.js: the character controller                          *)
(***************************************************************************)
\* jumpForce * mass / mass: the change of vertical velocity of one jump
JumpVelocity == 70

\* the 0.5 m/s limit of checkGrounded
GroundedVelocityLimit == 5

\* Vertical velocities the physics step may leave the character with
VerticalVelocities == {-20, 0, 5, 6, 30}

CharEvent(op, hit, impulse) == [op |-> op, rayHit |-> hit, impulse |-> impulse]

\* A plausible slip: the ray alone decides.
checkGroundedRayOnly(body, world, vy, rayHit) ==
    IF ~body \/ ~world THEN FALSE ELSE rayHit

\* checkGrounded; rayHit is what castRay would answer
checkGrounded(body, world, vy, rayHit) ==
    IF ~body \/ ~world THEN FALSE
    ELSE IF vy > GroundedVelocityLimit THEN FALSE
    ELSE rayHit

\* Where the controls may leave the camera and the physics step the body
CharacterPositions == {0, 40}

\* The character body as togglePhysics sees it
CharacterBody ==
    [ body |-> characterBody, collider |-> characterCollider,
      translation |-> characterTranslation, velY |-> characterVelY,
      bodies |-> characterBodies ]

\* createCharacterBody: a dynamic body at the camera and its capsule collider
createCharacterBody(world, c, camera) ==
    IF ~world THEN c
    ELSE [c EXCEPT !.body = TRUE, !.collider = TRUE, !.translation = camera,
                   !.bodies = c.bodies + 1]

\* A plausible slip: every enable creates a body.
enableCharacterRecreates(world, c, camera) ==
    [createCharacterBody(world, c, camera) EXCEPT !.translation = camera, !.velY = 0]

\* The enabling branch of togglePhysics: the body is created if there is
\* none, then moved to the camera with its velocity reset
enableCharacter(world, c, camera) ==
    LET c1 == IF ~c.body THEN createCharacterBody(world, c, camera) ELSE c
    IN  [c1 EXCEPT !.translation = camera, !.velY = 0]

InitializeCharacterPhysics ==
    /\ ~sparkSceneRef
    /\ sparkSceneRef' = TRUE
    /\ charEvent' = CharEvent("init", FALSE, FALSE)
    /\ UNCHANGED <<physicsEnabled, characterBody, isGrounded, characterVelY,
                   toggleNotified, characterCollider, characterTranslation,
                   characterBodies, localFramePos>>

\* togglePhysics; enabling creates the body on first use, moves it to the
\* camera and zeroes its velocity
TogglePhysics ==
    /\ charEvent' = CharEvent("toggle", FALSE, FALSE)
    /\ IF ~sparkSceneRef \/ ~physicsWorld
         THEN /\ toggleNotified' = FALSE
              /\ UNCHANGED <<physicsEnabled, characterBody, characterVelY,
                             characterCollider, characterTranslation, characterBodies>>
         ELSE /\ physicsEnabled' = ~physicsEnabled
              /\ toggleNotified' = TRUE
              /\ IF ~physicsEnabled
                   THEN LET c == enableCharacter(physicsWorld, CharacterBody, localFramePos)
                        IN  /\ characterBody' = c.body
                            /\ characterCollider' = c.collider
                            /\ characterTranslation' = c.translation
                            /\ characterVelY' = c.velY
                            /\ characterBodies' = c.bodies
                   ELSE UNCHANGED <<characterBody, characterVelY, characterCollider,
                                    characterTranslation, characterBodies>>
    /\ UNCHANGED <<sparkSceneRef, isGrounded, localFramePos>>

\* jump()
Jump ==
    /\ IF ~physicsEnabled \/ ~characterBody
         THEN /\ charEvent' = CharEvent("jump", FALSE, FALSE)
              /\ UNCHANGED <<isGrounded, characterVelY>>
       ELSE IF isGrounded
         THEN /\ characterVelY' = characterVelY + JumpVelocity
              /\ isGrounded' = FALSE
              /\ charEvent' = CharEvent("jump", FALSE, TRUE)
       ELSE /\ charEvent' = CharEvent("jump", FALSE, FALSE)
            /\ UNCHANGED <<isGrounded, characterVelY>>
    /\ UNCHANGED <<sparkSceneRef, physicsEnabled, characterBody, toggleNotified,
                   characterCollider, characterTranslation, characterBodies,
                   localFramePos>>

\* One frame: the controls leave the camera at moved; updateCollisions steps
\* the world, which leaves the body at pos with the vertical velocity vy;
\* then updateCharacterPhysics refreshes isGrounded and puts the local frame
\* where the body is.
CharacterFrame(vy, rayHit, pos, moved) ==
    LET steps == physicsWorld /\ characterBody
        stepped == IF steps THEN vy ELSE characterVelY
    IN  /\ characterVelY' = stepped
        /\ characterTranslation' = IF steps THEN pos ELSE characterTranslation
        /\ isGrounded' = IF ~physicsEnabled \/ ~characterBody THEN isGrounded
                         ELSE checkGrounded(characterBody, physicsWorld, stepped, rayHit)
        /\ localFramePos' = IF ~physicsEnabled \/ ~characterBody THEN moved
                            ELSE characterTranslation'
        /\ charEvent' = CharEvent("frame", rayHit, FALSE)
        /\ UNCHANGED <<sparkSceneRef, physicsEnabled, characterBody, toggleNotified,
                       characterCollider, characterBodies>>

InitChar ==
    /\ sparkSceneRef = FALSE
    /\ physicsEnabled = FALSE
    /\ characterBody = FALSE
    /\ isGrounded = FALSE
    /\ characterVelY = 0
    /\ charEvent = CharEvent("none", FALSE, FALSE)
    /\ toggleNotified = FALSE
    /\ characterCollider = FALSE
    /\ characterTranslation = 0
    /\ characterBodies = 0

(***************************************************************************)
(* collisions.js, object-actions.js: operations on the dynamic objects     *)
(***************************************************************************)
\* The most collision bodies the model lets createCollisionPhysicsBodies
\* accumulate
MaxCollisionBodies == 2

\* kickDistance and throwDistance, 5.0 m, in centimetres
kickDistance == 500

PhysicsOp(op, result, count) == [op |-> op, result |-> result, count |-> count]

NoPhysicsOp == PhysicsOp("none", "none", 0)

\* A plausible slip: no test of the world, so createRigidBody is called on null
addDynamicObjectUnguarded(world, objs, name, hasMesh, pos) ==
    IF ~world
      THEN [objs |-> objs, result |-> "threw"]
      ELSE [objs |-> [n \in DOMAIN objs \cup {name} |->
                        IF n = name THEN InitObject(hasMesh, pos) ELSE objs[n]],
            result |-> "added"]

\* addDynamicObject: returns null without a world; otherwise creates a
\* Dynamic body at the position and stores { mesh, body, collider } under name
addDynamicObject(world, objs, name, hasMesh, pos) ==
    IF ~world
      THEN [objs |-> objs, result |-> "returned"]
      ELSE [objs |-> [n \in DOMAIN objs \cup {name} |->
                        IF n = name THEN InitObject(hasMesh, pos) ELSE objs[n]],
            result |-> "added"]

\* The entries an impulse of kickDynamicObjects / throwDynamicObjects acts
\* on: body and mesh present, 0 < distance <= kickDistance from the camera
InKickRange(objs, camera) ==
    {n \in DOMAIN objs :
        /\ objs[n].body /\ objs[n].mesh
        /\ Abs(objs[n].meshPosition - camera) <= kickDistance
        /\ Abs(objs[n].meshPosition - camera) > 0}

\* applyImpulse: the engine adds impulse / mass to the velocity of a Dynamic
\* body and ignores a kinematic one
applyImpulse(o) ==
    IF o.bodyType = "Dynamic" THEN [o EXCEPT !.linvel = EngineVel] ELSE o

AddDynamicObject(name, hasMesh, pos) ==
    LET r == addDynamicObject(physicsWorld, dynamicObjects, name, hasMesh, pos)
    IN  /\ dynamicObjects' = r.objs
        /\ physicsOp' = PhysicsOp("addDynamicObject", r.result, 0)
        /\ UNCHANGED <<handStates, lastTime, localFramePos, handEvent>>

CreateCollisionPhysicsBodies ==
    /\ collisionBodies + CollisionMeshCount <= MaxCollisionBodies
    /\ collisionBodies' = createCollisionPhysicsBodies(physicsWorld, collisionmesh,
                                                       collisionBodies)
    /\ physicsOp' = PhysicsOp("createCollisionPhysicsBodies",
                              IF collisionBodies' = collisionBodies
                                THEN "returned" ELSE "created",
                              collisionBodies' - collisionBodies)
    /\ UNCHANGED <<physicsWorld, collisionmesh, collisionsInit, handVars>>

\* kickDynamicObjects and throwDynamicObjects differ in the direction and
\* size of the impulse only
ImpulseObjects(op) ==
    /\ IF ~physicsWorld
         THEN /\ physicsOp' = PhysicsOp(op, "returned", 0)
              /\ UNCHANGED dynamicObjects
         ELSE LET hit == InKickRange(dynamicObjects, localFramePos)
              IN  /\ dynamicObjects' = [n \in DOMAIN dynamicObjects |->
                        IF n \in hit THEN applyImpulse(dynamicObjects[n])
                        ELSE dynamicObjects[n]]
                  /\ physicsOp' = PhysicsOp(op, "applied", Cardinality(hit))
    /\ UNCHANGED <<handStates, lastTime, localFramePos, handEvent>>

KickDynamicObjects == ImpulseObjects("kickDynamicObjects")

ThrowDynamicObjects == ImpulseObjects("throwDynamicObjects")

InitObjectOps == physicsOp = NoPhysicsOp

(***************************************************************************)
(* audio.js: the background audio and the global audio toggle              *)
(***************************************************************************)
\* The most toggleAudio calls the model lets wait for startBgAudio at once
MaxPendingStarts == 2

AudioEvent(op, result, retry) == [op |-> op, result |-> result, retry |-> retry]

NoAudioEvent == AudioEvent("none", "none", FALSE)

\* A plausible slip: audioEnabled is set before playback is attempted.
startBgAudioEnablesFirst(bg, playing, enabled, plays) ==
    IF plays
      THEN [audioEnabled |-> TRUE, bgPlaying |-> (playing \/ bg), success |-> TRUE]
      ELSE [audioEnabled |-> TRUE, bgPlaying |-> playing, success |-> FALSE]

\* startBgAudio: resumes the audio context and plays bgAudio when there is
\* one; a rejection is caught and answered with false, and audioEnabled is
\* set only after the awaited calls succeeded.
startBgAudio(bg, playing, enabled, plays) ==
    IF plays
      THEN [audioEnabled |-> TRUE, bgPlaying |-> (playing \/ bg), success |-> TRUE]
      ELSE [audioEnabled |-> enabled, bgPlaying |-> playing, success |-> FALSE]

(***************************************************************************)
(* spatial-audio.js: the positional sources                                *)
(***************************************************************************)
\* The audio config list: a looping source, and a non-looping source with
\* a triggerRadius of 3 m at 10 m (in centimetres)
SourceIds == {"loop", "trigger"}

SourceConfig(id) ==
    IF id = "loop"
      THEN [loop |-> TRUE, triggerRadius |-> 0, position |-> 0]
      ELSE [loop |-> FALSE, triggerRadius |-> 300, position |-> 1000]

\* play() calls on a triggered source are counted up to this number
MaxStartsCounted == 2

\* Where the listener (sparkScene.localFrame.position) may be in a frame
ListenerPositions == {0, 800, 1000}

\* A configured source: load is "none", "loading", "loaded" (pushed onto
\* spatialAudioSources) or "failed"
NewSource(id) ==
    [ load |-> "none",
      loop |-> SourceConfig(id).loop,
      triggerRadius |-> SourceConfig(id).triggerRadius,
      position |-> SourceConfig(id).position,
      triggered |-> FALSE,
      isPlaying |-> FALSE,
      starts |-> 0 ]

LoadedSources(srcs) == {i \in DOMAIN srcs : srcs[i].load = "loaded"}

\* setSpatialAudioEnabled: enabling plays the looping sources that are not
\* playing; disabling pauses every source that is playing
setSpatialAudioEnabled(srcs, enabled) ==
    [i \in DOMAIN srcs |->
        IF srcs[i].load # "loaded" THEN srcs[i]
        ELSE IF enabled
          THEN IF srcs[i].loop /\ ~srcs[i].isPlaying
                 THEN [srcs[i] EXCEPT !.isPlaying = TRUE]
                 ELSE srcs[i]
          ELSE [srcs[i] EXCEPT !.isPlaying = FALSE]]

\* notifyAudioToggleListeners: initializeSpatialAudio registers
\* setSpatialAudioEnabled before the toggle button can be used
notifyAudioToggleListeners(srcs, enabled) == setSpatialAudioEnabled(srcs, enabled)

InTriggerRange(src, listenerPosition) ==
    Abs(listenerPosition - src.position) <= src.triggerRadius

\* A plausible slip: the triggered flag is not tested.
ShouldTriggerAgain(src, listenerPosition) ==
    /\ src.load = "loaded"
    /\ ~src.loop /\ src.triggerRadius # 0
    /\ InTriggerRange(src, listenerPosition)

\* The test of checkProximityTriggers' loop body
ShouldTrigger(src, listenerPosition) ==
    /\ src.load = "loaded"
    /\ ~src.loop /\ src.triggerRadius # 0 /\ ~src.triggered
    /\ InTriggerRange(src, listenerPosition)

\* checkProximityTriggers: nothing while audio is disabled
checkProximityTriggers(srcs, enabled, listenerPosition) ==
    IF ~enabled THEN srcs
    ELSE [i \in DOMAIN srcs |->
            IF ShouldTrigger(srcs[i], listenerPosition)
              THEN [srcs[i] EXCEPT !.isPlaying = TRUE,
                                   !.triggered = TRUE,
                                   !.starts = IF @ < MaxStartsCounted THEN @ + 1 ELSE @]
              ELSE srcs[i]]

\* toggleAudio: enabling awaits startBgAudio; disabling pauses at once
ToggleAudio ==
    IF ~audioEnabled
      THEN /\ pendingStarts < MaxPendingStarts
           /\ pendingStarts' = pendingStarts + 1
           /\ audioEvent' = AudioEvent("toggleAudio", "awaiting", audioEvent.retry)
           /\ UNCHANGED <<bgAudio, bgPlaying, audioEnabled, spatialConfigDone,
                          spatialAudioSources>>
      ELSE /\ bgPlaying' = FALSE
           /\ audioEnabled' = FALSE
           /\ spatialAudioSources' =
                 notifyAudioToggleListeners(spatialAudioSources, FALSE)
           /\ audioEvent' = AudioEvent("toggleAudio", "paused", FALSE)
           /\ UNCHANGED <<bgAudio, pendingStarts, spatialConfigDone>>

\* turnMusicOn: toggles only when audio is disabled
TurnMusicOn ==
    IF ~audioEnabled
      THEN /\ pendingStarts < MaxPendingStarts
           /\ pendingStarts' = pendingStarts + 1
           /\ audioEvent' = AudioEvent("turnMusicOn", "awaiting", audioEvent.retry)
           /\ UNCHANGED <<bgAudio, bgPlaying, audioEnabled, spatialConfigDone,
                          spatialAudioSources>>
      ELSE /\ audioEvent' = AudioEvent("turnMusicOn", "kept", FALSE)
           /\ UNCHANGED <<bgAudio, bgPlaying, audioEnabled, pendingStarts,
                          spatialConfigDone, spatialAudioSources>>

\* The awaited startBgAudio of one pending toggleAudio settles; the call
\* then notifies the listeners with the current audioEnabled and returns.
StartSettles(plays) ==
    LET r == startBgAudio(bgAudio, bgPlaying, audioEnabled, plays)
    IN  /\ pendingStarts > 0
        /\ pendingStarts' = pendingStarts - 1
        /\ audioEnabled' = r.audioEnabled
        /\ bgPlaying' = r.bgPlaying
        /\ spatialAudioSources' =
              notifyAudioToggleListeners(spatialAudioSources, r.audioEnabled)
        /\ audioEvent' = IF r.success
                            THEN AudioEvent("startBgAudio", "started", audioEvent.retry)
                            ELSE AudioEvent("startBgAudio", "rejected", TRUE)
        /\ UNCHANGED <<bgAudio, spatialConfigDone>>

\* initializeSpatialAudio once its config fetch settled: the loads of all
\* sources start; a config that fails to load leaves no source to load
SpatialConfigSettles(configLoads) ==
    /\ ~spatialConfigDone
    /\ spatialConfigDone' = TRUE
    /\ spatialAudioSources' =
          [i \in SourceIds |->
              IF configLoads THEN [spatialAudioSources[i] EXCEPT !.load = "loading"]
              ELSE spatialAudioSources[i]]
    /\ audioEvent' = AudioEvent("initializeSpatialAudio", "loading", audioEvent.retry)
    /\ UNCHANGED <<bgAudio, bgPlaying, audioEnabled, pendingStarts>>

\* The load callback of addSpatialAudioSource pushes the source
SourceLoads(i) ==
    /\ spatialAudioSources[i].load = "loading"
    /\ spatialAudioSources' = [spatialAudioSources EXCEPT ![i].load = "loaded"]
    /\ audioEvent' = AudioEvent("addSpatialAudioSource", "loaded", audioEvent.retry)
    /\ UNCHANGED <<bgAudio, bgPlaying, audioEnabled, pendingStarts, spatialConfigDone>>

\* The error callback of addSpatialAudioSource
SourceFails(i) ==
    /\ spatialAudioSources[i].load = "loading"
    /\ spatialAudioSources' = [spatialAudioSources EXCEPT ![i].load = "failed"]
    /\ audioEvent' = AudioEvent("addSpatialAudioSource", "failed", audioEvent.retry)
    /\ UNCHANGED <<bgAudio, bgPlaying, audioEnabled, pendingStarts, spatialConfigDone>>

\* A non-looping source reaches the end of its buffer
SourceEnds(i) ==
    /\ spatialAudioSources[i].load = "loaded"
    /\ ~spatialAudioSources[i].loop
    /\ spatialAudioSources[i].isPlaying
    /\ spatialAudioSources' = [spatialAudioSources EXCEPT ![i].isPlaying = FALSE]
    /\ audioEvent' = AudioEvent("onEnded", "ended", audioEvent.retry)
    /\ UNCHANGED <<bgAudio, bgPlaying, audioEnabled, pendingStarts, spatialConfigDone>>

\* initializeSpatialAudio has settled: its Promise.all resolved, or was
\* rejected by the first failed load, or there was nothing to load
SpatialAudioSettled ==
    /\ spatialConfigDone
    /\ \/ \A i \in SourceIds : spatialAudioSources[i].load # "loading"
       \/ \E i \in SourceIds : spatialAudioSources[i].load = "failed"

\* The end of a frame callback: checkProximityTriggers(localFrame.position)
AudioFrame(listenerPosition) ==
    /\ SpatialAudioSettled
    /\ localFramePos' = listenerPosition
    /\ spatialAudioSources' =
          checkProximityTriggers(spatialAudioSources, audioEnabled, listenerPosition)
    /\ audioEvent' = AudioEvent("checkProximityTriggers", "frame", audioEvent.retry)
    /\ UNCHANGED <<bgAudio, bgPlaying, audioEnabled, pendingStarts, spatialConfigDone>>

\* After initializeBackgroundAudio, with initializeSpatialAudio fetching its
\* config: the toggle button is live, the listeners are registered, nothing
\* plays
InitAudioOff ==
    /\ bgPlaying = FALSE
    /\ audioEnabled = FALSE
    /\ pendingStarts = 0
    /\ audioEvent = NoAudioEvent
    /\ spatialConfigDone = FALSE
    /\ spatialAudioSources = [i \in SourceIds |-> NewSource(i)]

InitAudio == bgAudio = TRUE /\ InitAudioOff

(***************************************************************************)
(* main.js: the startup sequence                                           *)
(***************************************************************************)
FlagSets ==
    [ enableLighting : BOOLEAN, enablePhysics : BOOLEAN,
      enableDynamicObjects : BOOLEAN, enableVR : BOOLEAN,
      enableHands : BOOLEAN, enableHUD : BOOLEAN ]

AllFlags ==
    [ enableLighting |-> TRUE, enablePhysics |-> TRUE,
      enableDynamicObjects |-> TRUE, enableVR |-> TRUE,
      enableHands |-> TRUE, enableHUD |-> TRUE ]

MainGoes(pc) == mainPc' = pc /\ UNCHANGED <<flags, animationLoop>>

\* createSparkScene: fetchWithProgress throws on a failed splat download
MainCreateScene(splatLoads) ==
    /\ mainPc = "createSparkScene"
    /\ MainGoes(IF splatLoads THEN "initializeBackgroundAudio" ELSE "aborted")
    /\ UNCHANGED <<worldVars, charVars>>

\* initializeBackgroundAudio catches a failed config load
MainBackgroundAudio(configLoads) ==
    /\ mainPc = "initializeBackgroundAudio"
    /\ MainGoes("initializeSpatialAudio")
    /\ UNCHANGED <<worldVars, charVars>>

\* initializeSpatialAudio catches a failed config load and failed sources
MainSpatialAudio(configLoads, sourcesLoad) ==
    /\ mainPc = "initializeSpatialAudio"
    /\ MainGoes("initializeLighting")
    /\ UNCHANGED <<worldVars, charVars>>

\* initializeLighting, when enabled, returns early on a failed config load
MainLighting(configLoads) ==
    /\ mainPc = "initializeLighting"
    /\ MainGoes("initializeCollisions")
    /\ UNCHANGED <<worldVars, charVars>>

\* await initializeCollisions(...), when physics is enabled: a rejection is
\* not caught and ends the evaluation of the module
MainCollisions(rapierInits, meshLoads) ==
    /\ mainPc = "initializeCollisions"
    /\ IF flags.enablePhysics
         THEN /\ InitializeCollisions(rapierInits, meshLoads)
              /\ MainGoes(IF collisionsInit' = "resolved"
                            THEN "initializeObjects" ELSE "aborted")
         ELSE /\ rapierInits /\ meshLoads
              /\ MainGoes("initializeObjects")
              /\ UNCHANGED worldVars
    /\ UNCHANGED charVars

\* initializeObjects, when enabled, catches a failed config load and every
\* failed model load
MainObjects(configLoads) ==
    /\ mainPc = "initializeObjects"
    /\ (~flags.enableDynamicObjects => configLoads)
    /\ MainGoes("setup")
    /\ UNCHANGED <<worldVars, charVars>>

\* The synchronous set-up up to initializeObjectActionKeyHandlers; with
\* physics enabled initializeCharacterPhysics stores the scene reference.
MainSetup ==
    /\ mainPc = "setup"
    /\ MainGoes("turnMusicOn")
    /\ collisionBodies' = IF collisionmesh /\ flags.enablePhysics
                            THEN createCollisionPhysicsBodies(physicsWorld, collisionmesh,
                                                              collisionBodies)
                            ELSE collisionBodies
    /\ sparkSceneRef' = (sparkSceneRef \/ flags.enablePhysics)
    /\ UNCHANGED <<physicsEnabled, characterBody, isGrounded, characterVelY, charEvent,
                   toggleNotified, characterCollider, characterTranslation,
                   characterBodies>>
    /\ UNCHANGED <<physicsWorld, collisionmesh, collisionsInit>>

\* turnMusicOn, awaited when no hand tracking is set up; it never rejects
MainMusic(audioStarts) ==
    /\ mainPc = "turnMusicOn"
    /\ (flags.enableVR => audioStarts)
    /\ MainGoes("startAnimationLoop")
    /\ UNCHANGED <<worldVars, charVars>>

MainStartLoop ==
    /\ mainPc = "startAnimationLoop"
    /\ mainPc' = "running"
    /\ animationLoop' = TRUE
    /\ UNCHANGED flags
    /\ UNCHANGED <<worldVars, charVars>>

InitMain ==
    /\ flags = AllFlags
    /\ mainPc = "running"
    /\ animationLoop = TRUE

(***************************************************************************)
(* assets.js, assets-config.js: the asset resolver                         *)
(***************************************************************************)
\* A URL or path is a sequence of pieces; the piece "/" is one slash.
Slash == <<"/">>

DefaultLocalPath == <<"/assets">>

LocalPaths == { DefaultLocalPath, <<"/scenes/cozyship/assets", "/">>, <<"/local", "/", "/">> }

cdnBaseUrl == <<"https://public-spz.t3.storage.dev">>

SceneNames == {"cozyship"}

Filenames == {"scene.spz", "robot.fbx"}

\* What a probing fetch answers: OK with a non-HTML content type, OK without
\* a content-type header, OK with text/html, a non-OK status, or it throws
ProbeOutcomes == {"ok", "okNoType", "okHtml", "notOk", "throws"}

Resolvers == {"checkAssets", "checkSceneAssets"}

\* A plausible slip: any OK answer is taken as the file.
ProbeFindsFileAnyOk(outcome) == outcome \in {"ok", "okNoType", "okHtml"}

\* response.ok && !contentType.includes('text/html'), inside the try
ProbeFindsFile(outcome) == outcome \in {"ok", "okNoType"}

\* localPath.endsWith('/') ? localPath.slice(0, -1) : localPath
normalizedLocalPath(localPath) ==
    IF Len(localPath) > 0 /\ localPath[Len(localPath)] = "/"
      THEN SubSeq(localPath, 1, Len(localPath) - 1)
      ELSE localPath

localPathFull(localPath, filename) ==
    normalizedLocalPath(localPath) \o Slash \o <<filename>>

cdnPath(filename) == cdnBaseUrl \o Slash \o <<filename>>

scenePath(sceneName, filename) ==
    <<"/scenes">> \o Slash \o <<sceneName>> \o Slash \o <<filename>>

NoUrl == <<>>

\* checkSceneAssets: the probe of the scene directory
ProbeSceneDirectory ==
    /\ assetPc = "scene"
    /\ IF ProbeFindsFile(assetCall.sceneProbe)
         THEN /\ assetUrl' = scenePath(assetCall.sceneName, assetCall.filename)
              /\ assetSettled' = "resolved"
              /\ assetPc' = "done"
         ELSE /\ assetPc' = "local"
              /\ UNCHANGED <<assetUrl, assetSettled>>
    /\ UNCHANGED assetCall

\* checkAssets: the probe of the local path, then the CDN fallback
ProbeLocalPath ==
    /\ assetPc = "local"
    /\ assetUrl' = IF ProbeFindsFile(assetCall.localProbe)
                     THEN localPathFull(assetCall.localPath, assetCall.filename)
                     ELSE cdnPath(assetCall.filename)
    /\ assetSettled' = "resolved"
    /\ assetPc' = "done"
    /\ UNCHANGED assetCall

AssetCalls ==
    [ resolver : Resolvers, sceneName : SceneNames, filename : Filenames,
      localPath : LocalPaths, sceneProbe : ProbeOutcomes, localProbe : ProbeOutcomes ]

\* No resolution in progress
InitAsset ==
    /\ assetCall = [ resolver |-> "checkAssets", sceneName |-> "cozyship",
                     filename |-> "scene.spz", localPath |-> DefaultLocalPath,
                     sceneProbe |-> "notOk", localProbe |-> "notOk" ]
    /\ assetPc = "done"
    /\ assetUrl = cdnPath("scene.spz")
    /\ assetSettled = "resolved"

\* A resolver has just been called.
InitAssetCall ==
    /\ assetCall \in AssetCalls
    /\ assetPc = IF assetCall.resolver = "checkSceneAssets" THEN "scene" ELSE "local"
    /\ assetUrl = NoUrl
    /\ assetSettled = "pending"

(***************************************************************************)
(* The config-list loaders: objects.js, lighting.js, spatial-audio.js and  *)
(* the path module                                                         *)
(***************************************************************************)
\* An entry of a config list is well formed ("ok"), lacks a required field
\* ("missing": name, model or position of an object, the type of a light,
\* audio_position of an audio source, position of a waypoint), names an
\* asset that fails to load ("unloadable") or is null ("null").
ListKinds == {"objects", "lights", "audio", "path"}

EntryKinds(kind) ==
    IF kind \in {"objects", "audio"}
      THEN {"ok", "missing", "unloadable", "null"}
      ELSE {"ok", "missing", "null"}

MaxListLen == 3

ListsOf(kind) == UNION { [1..n -> EntryKinds(kind)] : n \in 0..MaxListLen }

Loaded(entries, scene, settled) ==
    [loaded |-> entries, scene |-> scene, settled |-> settled]

\* The indices below n of the entries of the given kind
Indices(list, n, entryKind) == { i \in 1..n : i <= Len(list) /\ list[i] = entryKind }

\* The first index whose entry is one of the kinds, Len(list) + 1 if none
FirstOf(list, entryKinds) ==
    IF \E i \in 1..Len(list) : list[i] \in entryKinds
      THEN CHOOSE i \in 1..Len(list) :
             /\ list[i] \in entryKinds
             /\ \A j \in 1..(i - 1) : list[j] \notin entryKinds
      ELSE Len(list) + 1

\* initializeObjects: each entry in its own try; an entry without a required
\* field is skipped, a failed model load is caught; the catch block reads
\* config.name, which throws for a null entry and ends the loop.
initializeObjects(list) ==
    LET stop == FirstOf(list, {"null"})
        ok == Indices(list, stop - 1, "ok")
    IN  Loaded(ok, ok, IF stop <= Len(list) THEN "rejected" ELSE "resolved")

\* initializeLighting: createLight returns null for an unknown type and the
\* entry is skipped; destructuring a null entry throws out of the loop.
initializeLighting(list) ==
    LET stop == FirstOf(list, {"null"})
        ok == Indices(list, stop - 1, "ok")
    IN  Loaded(ok, ok, IF stop <= Len(list) THEN "rejected" ELSE "resolved")

\* initializeSpatialAudio: a null entry fails the mapping of the URLs and no
\* source is loaded; otherwise the loads are started in list order up to an
\* entry without audio_position, whose spread throws; the started loads that
\* succeed are recorded in spatialAudioSources, and the meshes are added to
\* the scene only if every load was started and succeeded.
initializeSpatialAudio(list) ==
    IF \E i \in 1..Len(list) : list[i] = "null"
      THEN Loaded({}, {}, "resolved")
      ELSE LET stop == FirstOf(list, {"missing"})
               started == Indices(list, stop - 1, "ok")
               allLoad == stop > Len(list) /\ Indices(list, Len(list), "unloadable") = {}
           IN  Loaded(started, IF allLoad THEN started ELSE {}, "resolved")

\* initializePath: one try around the forEach; an entry without position (or
\* a null entry) throws and the waypoints after it are not created.
initializePath(list) ==
    LET stop == FirstOf(list, {"missing", "null"})
        ok == Indices(list, stop - 1, "ok")
    IN  Loaded(ok, ok, "resolved")

LoaderSettles(kind, r) ==
    /\ listKind = kind
    /\ loaderSettled = "pending"
    /\ loadedEntries' = r.loaded
    /\ sceneEntries' = r.scene
    /\ loaderSettled' = r.settled
    /\ UNCHANGED <<listKind, configList>>

InitializeObjects == LoaderSettles("objects", initializeObjects(configList))

InitializeLighting == LoaderSettles("lights", initializeLighting(configList))

InitializeSpatialAudio == LoaderSettles("audio", initializeSpatialAudio(configList))

InitializePath == LoaderSettles("path", initializePath(configList))

\* No list being loaded
InitLoader ==
    /\ listKind = "objects"
    /\ configList = <<>>
    /\ loadedEntries = {}
    /\ sceneEntries = {}
    /\ loaderSettled = "resolved"

\* A loader has just fetched its list.
InitLoaderCall ==
    /\ listKind \in ListKinds
    /\ configList \in ListsOf(listKind)
    /\ loadedEntries = {}
    /\ sceneEntries = {}
    /\ loaderSettled = "pending"

(***************************************************************************)
(* lighting.js, hud.js: the lights, their debug meshes and the HUD toggle  *)
(***************************************************************************)
\* The type of a lighting config entry: three of the known types, a type
\* createLight does not know, and an entry that is null
LightEntries == {"ambient", "directional", "point", "unknown", "null"}

KnownLightTypes == {"ambient", "directional", "point", "spot", "hemisphere"}

\* The longest lighting config
MaxLights == 3

LightLists == UNION { [1..n -> LightEntries] : n \in 0..MaxLights }

\* The debug mesh test of initializeLighting: every light but an ambient
\* one gets a mesh, at config.position or else at light.position
HasDebugMesh(type) == type # "ambient"

\* The loop of initializeLighting over a fetched config: a light for each
\* entry of a known type and a debug mesh (visible as the HUD is) for each
\* such entry that is not ambient; destructuring a null entry throws out of
\* the loop, before the HUD toggle listener is registered.
createLights(list, hud) ==
    LET stop == FirstOf(list, {"null"})
        made == {i \in 1..(stop - 1) : list[i] \in KnownLightTypes}
    IN  [ lights |-> made,
          meshes |-> [i \in {j \in made : HasDebugMesh(list[j])} |-> hud],
          settled |-> IF stop <= Len(list) THEN "rejected" ELSE "resolved" ]

\* setLightDebugVisibility
setLightDebugVisibility(meshes, visible) == [i \in DOMAIN meshes |-> visible]

\* The HUD toggle listeners: initializeLighting registers
\* setLightDebugVisibility after its loop
notifyHudToggleListeners(meshes, settled, visible) ==
    IF settled = "resolved" THEN setLightDebugVisibility(meshes, visible) ELSE meshes

\* initializeLighting; a config that cannot be fetched returns at once
LoadLighting(configLoads) ==
    LET r == createLights(lightConfigs, hudVisible)
    IN  /\ lightingSettled = "pending"
        /\ flags.enableLighting
        /\ IF configLoads
             THEN /\ lights' = r.lights
                  /\ lightDebugMeshes' =
                        IF r.settled = "resolved"
                        THEN setLightDebugVisibility(r.meshes, hudVisible)
                        ELSE r.meshes
                  /\ lightingSettled' = r.settled
             ELSE /\ lightingSettled' = "returned"
                  /\ UNCHANGED <<lights, lightDebugMeshes>>
        /\ UNCHANGED <<lightConfigs, hudVisible>>

\* toggleHUD, from the button initializeHUD wires: main.js reaches
\* initializeHUD only after initializeLighting resolved
ToggleHUD ==
    /\ flags.enableHUD
    /\ lightingSettled \in {"resolved", "returned"}
    /\ hudVisible' = ~hudVisible
    /\ lightDebugMeshes' =
          notifyHudToggleListeners(lightDebugMeshes, lightingSettled, hudVisible')
    /\ UNCHANGED <<lightConfigs, lights, lightingSettled>>

\* No lighting config being loaded
InitLighting ==
    /\ lightConfigs = << >>
    /\ lights = {}
    /\ lightDebugMeshes = [i \in {} |-> FALSE]
    /\ lightingSettled = "returned"
    /\ hudVisible = FALSE

\* Before initializeLighting, for every lighting config
InitLightingCall ==
    /\ lightConfigs \in LightLists
    /\ lights = {}
    /\ lightDebugMeshes = [i \in {} |-> FALSE]
    /\ lightingSettled = "pending"
    /\ hudVisible = FALSE

(***************************************************************************)
(* main.js: the frame callback                                             *)
(***************************************************************************)
\* The frame times requestAnimationFrame may pass
MaxFrameTime == 4

\* updateCollisions: steps the world, if there is one
updateCollisions(world) ==
    <<"updateCollisions">> \o (IF world THEN <<"physicsWorld.step">> ELSE << >>)

Call(condition, stage) == IF condition THEN <<stage>> ELSE << >>

\* A plausible slip: the hands are updated before the physics.
frameCallbackHandsFirst(f, last, world) ==
    Call(f.enableDynamicObjects, "updateThrowHands")
    \o (IF f.enablePhysics /\ last # << >>
        THEN updateCollisions(world)
             \o Call(f.enableDynamicObjects, "updateDynamicObjects")
             \o <<"updateCharacterPhysics">>
        ELSE << >>)
    \o Call(f.enableHands, "updateSDFHands")
    \o Call(f.enableHUD, "updateHUD")
    \o <<"checkProximityTriggers">>

\* The calls of one frame callback, in order
frameCallback(f, last, world) ==
    (IF f.enablePhysics /\ last # << >>
     THEN updateCollisions(world)
          \o Call(f.enableDynamicObjects, "updateDynamicObjects")
          \o <<"updateCharacterPhysics">>
     ELSE << >>)
    \o Call(f.enableHands, "updateSDFHands")
    \o Call(f.enableDynamicObjects, "updateThrowHands")
    \o Call(f.enableHUD, "updateHUD")
    \o <<"checkProximityTriggers">>

\* The callback startAnimationLoop runs at each frame
FrameCallback(time) ==
    /\ animationLoop
    /\ lastPhysicsTime # << >> => time > lastPhysicsTime[1]
    /\ frameStages' = frameCallback(flags, lastPhysicsTime, physicsWorld)
    /\ lastPhysicsTime' = <<time>>

InitFrame ==
    /\ lastPhysicsTime = << >>
    /\ frameStages = << >>

(***************************************************************************)
(* main.js of the ship scene: the awaited startup steps and their loads    *)
(***************************************************************************)
\* The asset loads and config fetches the startup steps start
ShipLoads ==
    {"splat", "audioConfig", "source1", "source2", "lightingConfig",
     "collisionMesh", "objectsConfig", "objectMesh", "robotConfig", "robotModel",
     "droneAudio"}

\* The awaited step that starts each load
StepOf(load) ==
    CASE load = "splat" -> "createSparkScene"
      [] load \in {"audioConfig", "source1", "source2"} -> "initializeSpatialAudio"
      [] load = "lightingConfig" -> "initializeLighting"
      [] load = "collisionMesh" -> "initializeCollisions"
      [] load \in {"objectsConfig", "objectMesh"} -> "initializeObjects"
      [] OTHER -> "initializeRobot"

\* The frames counted once the loop runs
MaxShipFrames == 2

Settled(loads, load, ok) ==
    [loads EXCEPT ![load] = IF ok THEN "done" ELSE "failed"]

Started(loads, names) ==
    [l \in ShipLoads |-> IF l \in names THEN "inflight" ELSE loads[l]]

\* main.js goes on to the step, which starts its first loads
Begin(step, loads, names) == [pc |-> step, loads |-> Started(loads, names)]

\* What the settling of a load resumes: the code after the await that was
\* waiting for it, up to the next await
Resume(pc, loads, load, ok) ==
    CASE load = "splat" ->
           \* createSparkScene: fetchWithProgress throws on a failed download
           IF ok THEN Begin("initializeSpatialAudio", loads, {"audioConfig"})
           ELSE [pc |-> "aborted", loads |-> loads]
      [] load = "audioConfig" ->
           \* initializeSpatialAudio: the sources are loaded together
           IF ok THEN Begin(pc, loads, {"source1", "source2"})
           ELSE Begin("initializeLighting", loads, {"lightingConfig"})
      [] load \in {"source1", "source2"} ->
           \* Promise.all settles when every source is loaded or one has
           \* failed; its rejection is caught and the step returns
           IF pc = "initializeSpatialAudio"
              /\ (~ok \/ (loads["source1"] = "done" /\ loads["source2"] = "done"))
           THEN Begin("initializeLighting", loads, {"lightingConfig"})
           ELSE [pc |-> pc, loads |-> loads]
      [] load = "lightingConfig" ->
           Begin("initializeCollisions", loads, {"collisionMesh"})
      [] load = "collisionMesh" ->
           \* initializeCollisions rejects when the mesh fails to load
           IF ok THEN Begin("initializeObjects", loads, {"objectsConfig"})
           ELSE [pc |-> "aborted", loads |-> loads]
      [] load = "objectsConfig" ->
           IF ok THEN Begin(pc, loads, {"objectMesh"})
           ELSE Begin("initializeRobot", loads, {"robotConfig"})
      [] load = "objectMesh" ->
           Begin("initializeRobot", loads, {"robotConfig"})
      [] load = "robotConfig" ->
           \* a failed config falls back to the default waypoint
           Begin(pc, loads, {"robotModel"})
      [] load = "robotModel" ->
           \* the load callback starts the drone audio without awaiting it
           \* and resolves; main.js then reaches startAnimationLoop
           IF ok THEN Begin("running", loads, {"droneAudio"})
           ELSE [pc |-> "aborted", loads |-> loads]
      [] OTHER -> [pc |-> pc, loads |-> loads]

\* A load or fetch completes, with or without success
LoadSettles(load, ok) ==
    /\ shipLoads[load] = "inflight"
    /\ LET r == Resume(shipPc, Settled(shipLoads, load, ok), load, ok)
       IN  /\ shipPc' = r.pc
           /\ shipLoads' = r.loads
    /\ UNCHANGED shipFrames

\* A frame callback of the running loop
ShipFrame ==
    /\ shipPc = "running"
    /\ shipFrames < MaxShipFrames
    /\ shipFrames' = shipFrames + 1
    /\ UNCHANGED <<shipPc, shipLoads>>

\* main.js has called createSparkScene
InitShip ==
    /\ shipPc = "createSparkScene"
    /\ shipLoads = [l \in ShipLoads |-> IF l = "splat" THEN "inflight" ELSE "none"]
    /\ shipFrames = 0

(***************************************************************************)
(* scenes/cozyship/config.js: the path waypoints                           *)
(***************************************************************************)
\* A waypoint of path-config.json: its place along the walk (centimetres)
\* and its trigger radius
PathWaypointConfig(position, triggerRadius) ==
    [position |-> position, triggerRadius |-> triggerRadius]

\* The path configs: one, two or three waypoints, the last two of the third
\* close enough to be triggered from one place
PathConfigs ==
    { <<PathWaypointConfig(0, 200)>>,
      <<PathWaypointConfig(0, 200), PathWaypointConfig(1000, 200)>>,
      <<PathWaypointConfig(0, 200), PathWaypointConfig(1000, 200),
        PathWaypointConfig(1300, 100)>> }

\* Where the player may stand when updatePath is called
PlayerPositions == {0, 200, 500, 1200, 2000}

\* Frame times (ms) at which Math.sin(time * 0.001) is 0, 1 and -1
PathTimes == {0, 1571, 4712}

\* Math.sin(time * floatSpeed) * floatAmount, in centimetres
floatOffset(time) ==
    CASE time = 1571 -> 20
      [] time = 4712 -> -20
      [] OTHER -> 0

\* The entry initializePath pushes for a config waypoint: the sphere is
\* visible, 1 m up; its highlight lies highlightOffset (1.2 m) below it
NewPathWaypoint(config) ==
    [ position |-> config.position,
      triggerRadius |-> config.triggerRadius,
      triggered |-> FALSE,
      sphereVisible |-> TRUE,
      sphereY |-> 100,
      highlightY |-> 100 - 120,
      baseY |-> 100,
      highlightOffset |-> 120 ]

\* pathSplatEdit is << >> while null, else <<S>> with S the waypoints whose
\* highlight is a child of the edit layer (Object3D.add of a child that is
\* already there leaves it there once).
NoSplatEdit == << >>

SplatEditOf(children) == <<children>>

HighlightsOf(edit) == IF edit = NoSplatEdit THEN {} ELSE edit[1]

SplatEditAdd(edit, i) == IF edit = NoSplatEdit THEN edit ELSE SplatEditOf(edit[1] \cup {i})

SplatEditRemove(edit, i) == IF edit = NoSplatEdit THEN edit ELSE SplatEditOf(edit[1] \ {i})

PathOp(op, playerPosition) == [op |-> op, playerPosition |-> playerPosition]

NoPathOp == PathOp("none", 0)

\* getRemainingWaypoints
getRemainingWaypoints(wps) == Len(SelectSeq(wps, LAMBDA wp : ~wp.triggered))

\* The path toggle button before it was ever synced
NoPathToggle == [icon |-> "none", count |-> 0]

\* syncPathToggle: the icon, and the remaining count while the path is shown
syncPathToggle(visible, wps) ==
    [ icon |-> IF visible THEN "map-pin" ELSE "map-pin-off",
      count |-> IF visible /\ getRemainingWaypoints(wps) > 0
                  THEN getRemainingWaypoints(wps) ELSE 0 ]

InTriggerRadius(wp, playerPosition) ==
    Abs(playerPosition - wp.position) <= wp.triggerRadius

\* The forEach body of updatePath for one waypoint
updateWaypoint(wp, playerPosition, time) ==
    IF wp.triggered THEN wp
    ELSE IF InTriggerRadius(wp, playerPosition)
      THEN [wp EXCEPT !.sphereVisible = FALSE, !.triggered = TRUE]
      ELSE [wp EXCEPT !.sphereY = wp.baseY + floatOffset(time),
                      !.highlightY = wp.baseY + floatOffset(time) - wp.highlightOffset]

\* The waypoints updatePath triggers in this call
TriggeredNow(wps, playerPosition) ==
    {i \in DOMAIN wps : ~wps[i].triggered /\ InTriggerRadius(wps[i], playerPosition)}

\* updatePath(playerPosition, time): nothing while there are no waypoints
\* (sparkSceneRef is set before any waypoint exists) or the path is hidden
updatePath(visible, wps, edit, toggle, playerPosition, time) ==
    IF Len(wps) = 0 \/ ~visible
      THEN [waypoints |-> wps, edit |-> edit, toggle |-> toggle]
      ELSE LET wps1 == [i \in DOMAIN wps |-> updateWaypoint(wps[i], playerPosition, time)]
               hit == TriggeredNow(wps, playerPosition)
           IN  [ waypoints |-> wps1,
                 edit |-> IF edit = NoSplatEdit THEN edit
                          ELSE SplatEditOf(HighlightsOf(edit) \ hit),
                 toggle |-> IF hit = {} THEN toggle
                            ELSE syncPathToggle(visible, wps1) ]

\* resetPath (it does not sync the button)
resetPath(visible, wps, edit) ==
    [ waypoints |-> [i \in DOMAIN wps |->
                        [wps[i] EXCEPT !.sphereVisible = visible, !.triggered = FALSE]],
      edit |-> IF visible /\ edit # NoSplatEdit
                 THEN SplatEditOf(HighlightsOf(edit) \cup DOMAIN wps)
                 ELSE edit ]

\* A plausible slip: togglePath does not skip the triggered waypoints.
togglePathShowsAll(visible, wps, edit) ==
    [ pathVisible |-> ~visible,
      waypoints |-> [i \in DOMAIN wps |-> [wps[i] EXCEPT !.sphereVisible = ~visible]],
      edit |-> IF edit = NoSplatEdit THEN edit
               ELSE IF ~visible THEN SplatEditOf(HighlightsOf(edit) \cup DOMAIN wps)
               ELSE SplatEditOf(HighlightsOf(edit) \ DOMAIN wps) ]

\* togglePath, before its syncPathToggle
togglePath(visible, wps, edit) ==
    LET untriggered == {i \in DOMAIN wps : ~wps[i].triggered}
    IN  [ pathVisible |-> ~visible,
          waypoints |-> [i \in DOMAIN wps |->
                            IF wps[i].triggered THEN wps[i]
                            ELSE [wps[i] EXCEPT !.sphereVisible = ~visible]],
          edit |-> IF edit = NoSplatEdit THEN edit
                   ELSE IF ~visible THEN SplatEditOf(HighlightsOf(edit) \cup untriggered)
                   ELSE SplatEditOf(HighlightsOf(edit) \ untriggered) ]

\* initializePath with a config that loads: the edit layer is created, then
\* a sphere and a highlight for each waypoint; the toggle button is set up
\* and synced
CreatePath(config) ==
    /\ pathSplatEdit = NoSplatEdit
    /\ pathWaypoints' = [i \in DOMAIN config |-> NewPathWaypoint(config[i])]
    /\ pathSplatEdit' = SplatEditOf(DOMAIN config)
    /\ pathToggle' = syncPathToggle(pathVisible, pathWaypoints')
    /\ pathOp' = PathOp("initializePath", 0)
    /\ UNCHANGED pathVisible

UpdatePath(playerPosition, time) ==
    LET r == updatePath(pathVisible, pathWaypoints, pathSplatEdit, pathToggle,
                        playerPosition, time)
    IN  /\ pathWaypoints' = r.waypoints
        /\ pathSplatEdit' = r.edit
        /\ pathToggle' = r.toggle
        /\ pathOp' = PathOp("updatePath", playerPosition)
        /\ UNCHANGED pathVisible

ResetPath ==
    LET r == resetPath(pathVisible, pathWaypoints, pathSplatEdit)
    IN  /\ pathWaypoints' = r.waypoints
        /\ pathSplatEdit' = r.edit
        /\ pathOp' = PathOp("resetPath", 0)
        /\ UNCHANGED <<pathVisible, pathToggle>>

\* A click on the path toggle button, whose listener initializePath installs
\* once the waypoints exist
TogglePath ==
    LET r == togglePath(pathVisible, pathWaypoints, pathSplatEdit)
    IN  /\ Len(pathWaypoints) > 0
        /\ pathVisible' = r.pathVisible
        /\ pathWaypoints' = r.waypoints
        /\ pathSplatEdit' = r.edit
        /\ pathToggle' = syncPathToggle(r.pathVisible, r.waypoints)
        /\ pathOp' = PathOp("togglePath", 0)

InitPath ==
    /\ pathWaypoints = << >>
    /\ pathVisible = TRUE
    /\ pathSplatEdit = NoSplatEdit
    /\ pathToggle = NoPathToggle
    /\ pathOp = NoPathOp

(***************************************************************************)
(* Specifications                                                          *)
(***************************************************************************)
InitRest ==
    /\ InitHands /\ InitRobot /\ InitWorld /\ InitChar /\ InitMain /\ InitObjectOps /\ InitLighting /\ InitFrame /\ InitShip /\ InitPath
    /\ InitAudio

Init == InitRest /\ InitAsset /\ InitLoader

NextHands == FrameNotPresenting \/ FrameRejected \/ FrameTracked \/ PhysicsFrame

\* initializeCollisions resolved and createCollisionPhysicsBodies ran
InitWorldLoaded ==
    /\ physicsWorld = TRUE
    /\ collisionmesh = TRUE
    /\ collisionsInit = "resolved"
    /\ collisionBodies = CollisionMeshCount

\* The scene once startup registered the dynamic objects in the world
InitGrab ==
    /\ InitHands /\ InitRobot /\ InitWorldLoaded /\ InitChar /\ InitMain
    /\ InitObjectOps /\ InitLighting /\ InitFrame /\ InitShip /\ InitPath /\ InitAsset /\ InitLoader /\ InitAudio

\* The hand interaction and the physics frame
SpecHands == InitGrab /\ [][NextHands]_vars

\* The frames that fill a velocity history
MaxHistoryFrames == 7

\* What the left hand does while a history fills: lost, open or pinching at
\* 20 cm, open at the origin of the world
LeftHistoryInputs ==
    { NoHand, Hand(Joint(18), Joint(22)), Hand(Joint(19), Joint(21)),
      Hand(Joint(-3), Joint(3)) }

RightHistoryInputs == { NoHand, Hand(Joint(18), Joint(22)) }

HistoryFrame ==
    \E l \in LeftHistoryInputs, r \in RightHistoryInputs :
        UpdateThrowHandsUntil(MaxHistoryFrames * 250, TRUE, lastTime + 250,
                              [h \in HandNames |-> IF h = "left" THEN l ELSE r])

NextHistory == HistoryFrame

\* Enough tracked frames in a row to fill a velocity history
SpecHistory == InitGrab /\ [][NextHistory]_vars

NextRobot == LoadRobot \/ RobotFrame

\* The scripted mover
SpecRobot == Init /\ [][NextRobot]_vars

NextRobotLive == LoadRobot \/ RobotFrameRelative

\* The scripted mover under an animation loop that never stops calling
\* updateRobot with later timestamps
SpecRobotLive == Init /\ [][NextRobotLive]_vars /\ WF_vars(RobotFrameRelative)

PathStep ==
    /\ \/ \E config \in PathConfigs : CreatePath(config)
       \/ \E playerPosition \in PlayerPositions, time \in PathTimes :
              UpdatePath(playerPosition, time)
       \/ ResetPath
       \/ TogglePath
    /\ UNCHANGED <<handVars, robotVars, worldVars, charVars, mainVars, assetVars,
                   loaderVars, objectOpVars, audioVars, lightVars, frameVars, shipVars>>

NextPath == PathStep

\* The path waypoints of the cozyship scene
SpecPath == Init /\ [][NextPath]_vars

CollisionsSettle ==
    /\ \E rapierInits, meshLoads \in BOOLEAN : InitializeCollisions(rapierInits, meshLoads)
    /\ UNCHANGED <<handVars, robotVars, charVars, mainVars, assetVars, loaderVars, objectOpVars, audioVars,
                   lightVars, frameVars, shipVars, pathVars>>

\* The character operations, with the camera and the body moving within
\* the given positions
CharStepWithin(positions) ==
    /\ \/ InitializeCharacterPhysics
       \/ TogglePhysics
       \/ Jump
       \/ \E vy \in VerticalVelocities, rayHit \in BOOLEAN, pos, moved \in positions :
              CharacterFrame(vy, rayHit, pos, moved)
    /\ UNCHANGED <<handStates, lastTime, dynamicObjects, handEvent>>
    /\ UNCHANGED <<robotVars, worldVars, mainVars, assetVars, loaderVars, objectOpVars, audioVars,
                   lightVars, frameVars, shipVars, pathVars>>

CharStep == CharStepWithin(CharacterPositions)

NextChar == CollisionsSettle \/ CharStep

\* The character controller, after a startup that left the loop running
SpecChar == Init /\ [][NextChar]_vars

InitStartup ==
    /\ InitHands /\ InitRobot /\ InitWorld /\ InitChar
    /\ InitAsset /\ InitLoader /\ InitObjectOps /\ InitLighting /\ InitFrame /\ InitShip /\ InitPath /\ InitAudio
    /\ flags \in FlagSets
    /\ mainPc = "createSparkScene"
    /\ animationLoop = FALSE

MainStep ==
    /\ \/ \E splatLoads \in BOOLEAN : MainCreateScene(splatLoads)
       \/ \E configLoads \in BOOLEAN : MainBackgroundAudio(configLoads)
       \/ \E configLoads, sourcesLoad \in BOOLEAN : MainSpatialAudio(configLoads, sourcesLoad)
       \/ \E configLoads \in BOOLEAN : MainLighting(configLoads)
       \/ \E rapierInits, meshLoads \in BOOLEAN : MainCollisions(rapierInits, meshLoads)
       \/ \E configLoads \in BOOLEAN : MainObjects(configLoads)
       \/ MainSetup
       \/ \E audioStarts \in BOOLEAN : MainMusic(audioStarts)
       \/ MainStartLoop
    /\ UNCHANGED <<handVars, robotVars, assetVars, loaderVars, objectOpVars, audioVars,
                   lightVars, frameVars, shipVars, pathVars>>

\* Once the loop runs, the character controller is driven by frames and keys.
RunningStep == mainPc = "running" /\ CharStep

NextStartup == MainStep \/ RunningStep

\* The evaluation of main.js and what runs after it
SpecStartup == InitStartup /\ [][NextStartup]_vars

NextAssets ==
    /\ ProbeSceneDirectory \/ ProbeLocalPath
    /\ UNCHANGED <<handVars, robotVars, worldVars, charVars, mainVars, loaderVars,
                   objectOpVars, audioVars,
                   lightVars, frameVars, shipVars, pathVars>>

\* One resolution of an asset, for every call and every answer of the probes
InitAssets == InitRest /\ InitAssetCall /\ InitLoader

SpecAssets == InitAssets /\ [][NextAssets]_vars

NextConfig ==
    /\ InitializeObjects \/ InitializeLighting \/ InitializeSpatialAudio \/ InitializePath
    /\ UNCHANGED <<handVars, robotVars, worldVars, charVars, mainVars, assetVars,
                   objectOpVars, audioVars,
                   lightVars, frameVars, shipVars, pathVars>>

\* One run of a config-list loader, for every list
InitConfig == InitRest /\ InitAsset /\ InitLoaderCall

SpecConfig == InitConfig /\ [][NextConfig]_vars

\* Where a registered object may be placed, in centimetres
ObjectPositions == {0, 40}

ObjectStep ==
    /\ \/ \E name \in Names, hasMesh \in BOOLEAN, pos \in ObjectPositions :
              AddDynamicObject(name, hasMesh, pos)
       \/ KickDynamicObjects
       \/ ThrowDynamicObjects
    /\ UNCHANGED <<robotVars, worldVars, charVars, mainVars, assetVars, loaderVars,
                   audioVars,
                   lightVars, frameVars, shipVars, pathVars>>

CollisionBodiesStep ==
    /\ CreateCollisionPhysicsBodies
    /\ UNCHANGED <<robotVars, charVars, mainVars, assetVars, loaderVars, audioVars,
                   lightVars, frameVars, shipVars, pathVars>>

\* The character operations while neither the camera nor the body leaves
\* the origin
StandingCharStep == CharStepWithin({0})

NextPhysics == CollisionsSettle \/ StandingCharStep \/ ObjectStep \/ CollisionBodiesStep

\* The scene as createSparkScene leaves it: no world, an empty registry
InitPhysics ==
    /\ handStates = [h \in HandNames |-> InitHandState]
    /\ lastTime = 0
    /\ dynamicObjects = [n \in {} |-> InitObject(TRUE, 0)]
    /\ localFramePos = 0
    /\ handEvent = [h \in HandNames |-> NoEvent]
    /\ InitRobot /\ InitWorld /\ InitChar /\ InitMain /\ InitObjectOps /\ InitLighting /\ InitFrame /\ InitShip /\ InitPath
    /\ InitAsset /\ InitLoader /\ InitAudio

\* Every physics-dependent operation, before and after the world exists
SpecPhysics == InitPhysics /\ [][NextPhysics]_vars

AudioStep ==
    /\ \/ ToggleAudio
       \/ TurnMusicOn
       \/ \E plays \in BOOLEAN : StartSettles(plays)
       \/ \E configLoads \in BOOLEAN : SpatialConfigSettles(configLoads)
       \/ \E i \in SourceIds : SourceLoads(i) \/ SourceFails(i) \/ SourceEnds(i)
    /\ UNCHANGED <<handVars, robotVars, worldVars, charVars, mainVars, assetVars,
                   loaderVars, objectOpVars, lightVars, frameVars, shipVars, pathVars>>

AudioFrameStep ==
    /\ \E listenerPosition \in ListenerPositions : AudioFrame(listenerPosition)
    /\ UNCHANGED <<handStates, lastTime, dynamicObjects, handEvent>>
    /\ UNCHANGED <<robotVars, worldVars, charVars, mainVars, assetVars,
                   loaderVars, objectOpVars, lightVars, frameVars, shipVars, pathVars>>

NextAudio == AudioStep \/ AudioFrameStep

\* The scene with or without a background music file
InitAudioScene ==
    /\ InitHands /\ InitRobot /\ InitWorld /\ InitChar /\ InitMain /\ InitObjectOps /\ InitLighting /\ InitFrame /\ InitShip /\ InitPath
    /\ InitAsset /\ InitLoader
    /\ bgAudio \in BOOLEAN
    /\ InitAudioOff

\* The audio toggle, the spatial sources and the proximity triggers
SpecAudio == InitAudioScene /\ [][NextAudio]_vars

NextLighting ==
    /\ (\E configLoads \in BOOLEAN : LoadLighting(configLoads)) \/ ToggleHUD
    /\ UNCHANGED <<handVars, robotVars, worldVars, charVars, mainVars, assetVars,
                   loaderVars, objectOpVars, audioVars, frameVars, shipVars, pathVars>>

InitLightingScene ==
    /\ InitHands /\ InitRobot /\ InitWorld /\ InitChar /\ InitMain /\ InitObjectOps
    /\ InitAsset /\ InitLoader /\ InitAudio /\ InitFrame /\ InitShip /\ InitPath
    /\ InitLightingCall

\* One run of initializeLighting for every config, then HUD toggles
SpecLighting == InitLightingScene /\ [][NextLighting]_vars

NextFrame ==
    /\ \E time \in 1..MaxFrameTime : FrameCallback(time)
    /\ UNCHANGED <<handVars, robotVars, worldVars, charVars, mainVars, assetVars,
                   loaderVars, objectOpVars, audioVars, lightVars, shipVars, pathVars>>

\* The running loop, for every flag set, with and without a physics world
InitFrameLoop ==
    /\ InitHands /\ InitRobot /\ InitChar /\ InitObjectOps /\ InitAsset /\ InitLoader
    /\ InitAudio /\ InitLighting /\ InitFrame /\ InitShip /\ InitPath
    /\ InitWorld \/ InitWorldLoaded
    /\ flags \in FlagSets
    /\ mainPc = "running"
    /\ animationLoop = TRUE

\* The frame callbacks of the running loop
SpecFrame == InitFrameLoop /\ [][NextFrame]_vars

NextShip ==
    /\ (\E load \in ShipLoads, ok \in BOOLEAN : LoadSettles(load, ok)) \/ ShipFrame
    /\ UNCHANGED <<handVars, robotVars, worldVars, charVars, mainVars, assetVars,
                   loaderVars, objectOpVars, audioVars, lightVars, frameVars, pathVars>>

\* The startup of the ship scene and its first frames
SpecShip == Init /\ [][NextShip]_vars

(***************************************************************************)
(* Grab / throw claims                                                     *)
(***************************************************************************)
HeldBy(h) == handStates[h].grabbedObject

\* C1: after any sequence of updateThrowHands frames, no dynamic object's
\* name is the grabbedObject of both hands at the same time.
C1_AtMostOneHandPerObject ==
    \A n \in Names : ~(HeldBy("left") = n /\ HeldBy("right") = n)

\* Both hands started a pinch in the same frame within reach of the object
\* the left hand took.
C1_Witness ==
    /\ handEvent["left"].kind = "grab"
    /\ handEvent["right"].kind \in {"grab", "miss"}
    /\ Abs(handStates["right"].pinchPosition
           - dynamicObjects[handEvent["left"].target].meshPosition) < GRAB_DISTANCE

ProbePositions == {0, 5, 10, 20, 30, 40}

Distance(p, n) == Abs(p - dynamicObjects[n].meshPosition)

\* An entry the grab search may return for position p
Grabbable(p, n) ==
    /\ dynamicObjects[n].mesh /\ dynamicObjects[n].body
    /\ HeldBy("left") # n /\ HeldBy("right") # n
    /\ Distance(p, n) < GRAB_DISTANCE

\* C2: findNearestGrabbable returns, among the registered objects that have
\* a mesh and a body, are held by neither hand and lie strictly closer than
\* GRAB_DISTANCE, one at the smallest distance, and null when there is none.
C2_NearestGrabbable ==
    \A p \in ProbePositions :
        LET r == findNearestGrabbable(handStates, dynamicObjects, p)
        IN  /\ (r = NoObject) <=> ~(\E n \in Names : Grabbable(p, n))
            /\ r # NoObject =>
                  /\ Grabbable(p, r)
                  /\ \A n \in Names : Grabbable(p, n) => Distance(p, r) <= Distance(p, n)

\* A hand holds the object nearest to p, and the search at p returns another.
C2_Witness ==
    \E p \in ProbePositions, n \in Names :
        LET r == findNearestGrabbable(handStates, dynamicObjects, p)
        IN  /\ HeldBy("left") = n \/ HeldBy("right") = n
            /\ r # NoObject
            /\ Distance(p, n) < Distance(p, r)

\* The object a hand released in the last frame, unless the other hand took
\* it over in that same frame.
ReleasedBy(h) ==
    /\ handEvent[h].kind = "release"
    /\ \A g \in HandNames : HeldBy(g) # handEvent[h].target

\* C6: a release with an empty velocity history leaves the body Dynamic with
\* linear velocity exactly zero; with a non-empty history the linear
\* velocity is the mean of the samples times the throw multiplier.
C6_ThrowVelocity ==
    \A h \in HandNames :
        ReleasedBy(h) =>
            LET body == dynamicObjects[handEvent[h].target]
                history == handEvent[h].history
            IN  /\ body.bodyType = "Dynamic"
                /\ body.linvel.known
                /\ history = <<>> => body.linvel.num = 0
                /\ history # <<>> =>
                      body.linvel.num * Len(history)
                          = THROW_MULTIPLIER * SumSeq(history) * body.linvel.den

\* A hand released with an empty history.
C6_Witness ==
    \E h \in HandNames : ReleasedBy(h) /\ handEvent[h].history = <<>>

\* A hand released with samples that do not cancel.
C6_WitnessMoving ==
    \E h \in HandNames :
        ReleasedBy(h) /\ handEvent[h].history # <<>> /\ SumSeq(handEvent[h].history) # 0


(***************************************************************************)
(* Character claims                                                        *)
(***************************************************************************)
\* The step is a jump() that changed the body's vertical velocity.
ImpulseApplied == charEvent'.op = "jump" /\ characterVelY' # characterVelY

\* C3: jump() applies the upward impulse only when physics is enabled and
\* isGrounded is true, and that jump clears isGrounded at once; isGrounded
\* turns true again only in an updateCharacterPhysics call whose downward
\* ray hits while the vertical velocity is at most 0.5 m/s.
C3_JumpAndGrounded ==
    [][ /\ ImpulseApplied =>
             /\ physicsEnabled /\ isGrounded
             /\ ~isGrounded'
             /\ characterVelY' = characterVelY + JumpVelocity
        /\ (~isGrounded /\ isGrounded') =>
             /\ charEvent'.op = "frame"
             /\ charEvent'.rayHit
             /\ physicsEnabled
             /\ characterVelY' <= GroundedVelocityLimit ]_vars

\* A jump taken while grounded with the vertical velocity exactly at the
\* limit has just applied its impulse.
C3_Witness ==
    /\ charEvent.op = "jump"
    /\ charEvent.impulse
    /\ ~isGrounded
    /\ characterVelY = GroundedVelocityLimit + JumpVelocity

(***************************************************************************)
(* Robot claims                                                            *)
(***************************************************************************)
PhaseEdges ==
    { <<"paused", "rotating">>, <<"paused", "moving">>,
      <<"rotating", "moving">>, <<"moving", "paused">> }

\* C4: over updateRobot calls the phase changes only along paused->rotating,
\* paused->moving (and that one only with a heading delta of at most 0.1 rad),
\* rotating->moving and moving->paused; a phase is never restarted in place
\* and no other edge is taken.
C4_PhaseChanges ==
    [][ (robot /\ robot') =>
          /\ robotState'.phase # robotState.phase =>
               /\ <<robotState.phase, robotState'.phase>> \in PhaseEdges
               /\ (robotState.phase = "paused" /\ robotState'.phase = "moving") =>
                    NormalizedDiff(robotState'.startRotation,
                                   robotState'.targetRotation) <= RotationThreshold
          /\ robotState'.phaseStartTime # robotState.phaseStartTime =>
               robotState'.phase # robotState.phase ]_vars

\* The call just made went from paused straight to moving, on the second
\* leg of a straight path.
C4_Witness ==
    /\ robot
    /\ robotState.phase = "moving"
    /\ robotState.phaseStartTime = clock
    /\ robotState.currentWaypointIndex = 1
    /\ NormalizedDiff(robotState.startRotation, robotState.targetRotation)
         <= RotationThreshold

\* The squared length in metres of the leg the mover is on
LegLengthSq ==
    LET a == waypoints[robotState.currentWaypointIndex + 1]
        b == waypoints[NextIndex(robotState.currentWaypointIndex, Len(waypoints)) + 1]
    IN  (a[1] - b[1]) * (a[1] - b[1]) + (a[2] - b[2]) * (a[2] - b[2])

\* elapsed >= the duration of the current phase; for the moving phase
\* elapsed >= distance / speed * 1000 is compared on the squares
PhaseIsOver(elapsed) ==
    CASE robotState.phase = "paused" -> elapsed >= pauseDuration
      [] robotState.phase = "rotating" -> elapsed >= rotationDuration
      [] OTHER -> (elapsed * movementSpeed) * (elapsed * movementSpeed)
                    >= LegLengthSq * 1000 * 1000

\* C5: with strictly increasing timestamps the mover leaves its phase exactly
\* on an updateRobot(time) call with time - phaseStartTime >= the phase's
\* duration (pauseDuration, rotationDuration, distance / speed * 1000), never
\* on a smaller elapsed time, and the new phase starts at that timestamp.
C5_PhaseDurations ==
    [][ (robot /\ robot' /\ Len(waypoints) > 0 /\ clock' # clock) =>
          /\ (robotState'.phase # robotState.phase)
               <=> PhaseIsOver(clock' - robotState.phaseStartTime)
          /\ robotState'.phase # robotState.phase =>
               robotState'.phaseStartTime = clock' ]_vars

\* On the two-waypoint path 2 m long the mover, loaded at time 0, has paused
\* 1000 ms, travelled 1000 ms and arrives at waypoint 1 at 2000 ms.
C5_Witness ==
    /\ robot
    /\ waypoints = <<Pt(0, 0), Pt(0, 2)>>
    /\ robotState.phase = "paused"
    /\ robotState.currentWaypointIndex = 1
    /\ robotState.phaseStartTime = 2000
    /\ clock = 2000

\* A rotation that took exactly rotationDuration has just ended.
C5_WitnessRotation ==
    /\ robot
    /\ robotState.phase = "moving"
    /\ robotState.phaseStartTime = clock
    /\ NormalizedDiff(robotState.startRotation, robotState.targetRotation)
         > RotationThreshold
    /\ robotRotationY = robotState.targetRotation


(***************************************************************************)
(* Startup claims                                                          *)
(***************************************************************************)
\* C8: when loading the collision mesh fails, initializeCollisions rejects
\* and sparkScene.physicsWorld is left null.
C8_RejectionLeavesWorldNull == collisionsInit = "rejected" => ~physicsWorld

\* C9: a failing asset load during startup never aborts the evaluation of
\* main.js, so the call of startAnimationLoop is always still ahead or done.
C9_StartupNeverAborts == mainPc # "aborted"


(***************************************************************************)
(* Asset resolver claims                                                   *)
(***************************************************************************)
\* The location the priority order picks: the scene directory (scene
\* resolver only), then the local path, then the CDN
FirstGoodLocation ==
    IF assetCall.resolver = "checkSceneAssets"
         /\ assetCall.sceneProbe \in {"ok", "okNoType"}
      THEN "scene"
    ELSE IF assetCall.localProbe \in {"ok", "okNoType"} THEN "local"
    ELSE "cdn"

\* The local path without one trailing slash
Stripped(path) ==
    IF path # <<>> /\ path[Len(path)] = "/"
      THEN [i \in 1..(Len(path) - 1) |-> path[i]]
      ELSE path

\* C7: the resolver never rejects, and it returns the first location in the
\* order scene directory (scene resolver only), local path, CDN whose probe
\* answers OK with a non-HTML content type: the local path joined to the
\* filename when the local probe is good, the CDN base URL joined to the
\* filename when the local probe is not OK, is HTML or throws.
C7_ResolutionOrder ==
    /\ assetSettled # "rejected"
    /\ assetPc = "done" =>
         /\ assetSettled = "resolved"
         /\ assetUrl =
              CASE FirstGoodLocation = "scene" ->
                     <<"/scenes", "/", assetCall.sceneName, "/", assetCall.filename>>
                [] FirstGoodLocation = "local" ->
                     Stripped(assetCall.localPath) \o <<"/", assetCall.filename>>
                [] OTHER ->
                     cdnBaseUrl \o <<"/", assetCall.filename>>

\* The scene resolver found an HTML page in the scene directory and a
\* failing fetch locally, and returned the CDN URL.
C7_Witness ==
    /\ assetPc = "done"
    /\ assetCall.resolver = "checkSceneAssets"
    /\ assetCall.sceneProbe = "okHtml"
    /\ assetCall.localProbe = "throws"
    /\ assetUrl = <<"https://public-spz.t3.storage.dev", "/", "robot.fbx">>

(***************************************************************************)
(* Config-list claims                                                      *)
(***************************************************************************)
\* The list holds exactly one entry that is not well formed, and that entry
\* lacks a required field.
OneMalformedEntry ==
    /\ Cardinality({ i \in 1..Len(configList) : configList[i] # "ok" }) = 1
    /\ \E i \in 1..Len(configList) : configList[i] = "missing"

\* C10: for each config list (objects, lights, spatial-audio sources, path
\* waypoints) one malformed entry is skipped and every well-formed entry of
\* the list is still loaded and added to the scene.
C10_MalformedEntrySkipped ==
    (loaderSettled # "pending" /\ OneMalformedEntry) =>
        /\ loaderSettled = "resolved"
        /\ sceneEntries = { i \in 1..Len(configList) : configList[i] = "ok" }

(***************************************************************************)
(* Physics-world claims                                                    *)
(***************************************************************************)
\* C11: while the physics world is null, no physics-dependent operation
\* throws or changes state: physicsEnabled stays false, the toggle listeners
\* are not notified, no character or collision body is created, and the
\* dynamic-object registry is not modified.
C11_NullWorldOperationsAreNoOps ==
    [][~physicsWorld =>
          /\ physicsEnabled' = FALSE
          /\ toggleNotified' = FALSE
          /\ characterBody' = FALSE
          /\ <<isGrounded, characterVelY>>' = <<isGrounded, characterVelY>>
          /\ collisionBodies' = 0
          /\ dynamicObjects' = dynamicObjects
          /\ physicsOp'.result \notin {"threw", "added", "created", "applied"}]_vars

\* addDynamicObject and togglePhysics have both been called without a world
C11_Witness ==
    /\ ~physicsWorld
    /\ physicsOp.op = "addDynamicObject"
    /\ physicsOp.result = "returned"
    /\ charEvent.op = "toggle"
    /\ sparkSceneRef

\* the same operations act once the world exists
C11_WitnessWorld ==
    /\ physicsWorld
    /\ physicsOp.op = "kickDynamicObjects"
    /\ physicsOp.count > 0
    /\ collisionBodies > 0
    /\ toggleNotified

(***************************************************************************)
(* Grab / throw claims: body types, pinch edges, hand order, lost hands    *)
(***************************************************************************)
Holders(n) == {h \in HandNames : HeldBy(h) = n}

\* C17: at the end of every updateThrowHands frame a body is
\* KinematicPositionBased exactly when some hand holds its object and
\* Dynamic otherwise; a grab leaves the body kinematic with zero linear and
\* angular velocity, and a release leaves it Dynamic (unless the other hand
\* took it in that frame) with the hand's grabbedObject and velocity
\* history cleared.
C17_BodyTypeFollowsHolding ==
    /\ \A n \in Names :
          /\ dynamicObjects[n].bodyType \in {"KinematicPositionBased", "Dynamic"}
          /\ dynamicObjects[n].bodyType = "KinematicPositionBased" <=> Holders(n) # {}
    /\ \A h \in HandNames :
          /\ handEvent[h].kind = "grab" =>
                /\ HeldBy(h) = handEvent[h].target
                /\ dynamicObjects[HeldBy(h)].bodyType = "KinematicPositionBased"
                /\ dynamicObjects[HeldBy(h)].linvel = ZeroVel
                /\ dynamicObjects[HeldBy(h)].angvel = ZeroSpin
          /\ handEvent[h].kind = "release" =>
                /\ HeldBy(h) = NoObject
                /\ handStates[h].velocityHistory = <<>>
                /\ \/ dynamicObjects[handEvent[h].target].bodyType = "Dynamic"
                   \/ Holders(handEvent[h].target) # {}

\* One hand released an object in the frame in which the other one grabbed
\* another.
C17_Witness ==
    \E h, g \in HandNames :
        /\ handEvent[h].kind = "release"
        /\ dynamicObjects[handEvent[h].target].bodyType = "Dynamic"
        /\ handEvent[g].kind = "grab"
        /\ handEvent[g].target # handEvent[h].target

\* C18: a hand acquires an object only in a frame in which its pinch state
\* goes from not pinching to pinching while it holds nothing: a hand that
\* keeps pinching never grabs, and a hand that holds an object never
\* replaces it.
C18_GrabOnlyOnPinchStart ==
    [][\A h \in HandNames :
          (HeldBy(h)' # HeldBy(h) /\ HeldBy(h)' # NoObject) =>
              /\ ~handStates[h].isPinching
              /\ handStates'[h].isPinching
              /\ HeldBy(h) = NoObject
              /\ handEvent'[h].kind = "grab"]_vars

\* A hand that kept pinching through the last frame holds nothing although
\* a free object lies within its grab radius.
C18_Witness ==
    \E h \in HandNames, n \in Names :
        /\ handEvent[h].kind = "track"
        /\ handStates[h].isPinching
        /\ HeldBy(h) = NoObject
        /\ Grabbable(handStates[h].pinchPosition, n)

\* A step of updateThrowHands that ran the loop over the hands
HandsProcessed ==
    /\ lastTime' - lastTime > 0
    /\ lastTime' - lastTime <= MaxDeltaTime

\* The free objects other than n within reach of p, before the frame
OtherGrabbable(p, n) == {m \in Names \ {n} : Grabbable(p, m)}

\* C19: when both hands start pinching in the same frame with the same free
\* object nearest to both, the left hand grabs it and the right hand grabs
\* the nearest other free object in range, or nothing when there is none.
C19_LeftHandWinsTie ==
    [][( /\ HandsProcessed
         /\ \A h \in HandNames : handEvent'[h].kind \in {"grab", "miss"}
         /\ findNearestGrabbable(handStates, dynamicObjects,
                                 handStates'["left"].pinchPosition) # NoObject
         /\ findNearestGrabbable(handStates, dynamicObjects,
                                 handStates'["left"].pinchPosition)
              = findNearestGrabbable(handStates, dynamicObjects,
                                     handStates'["right"].pinchPosition) )
       => LET pr == handStates'["right"].pinchPosition
              n == findNearestGrabbable(handStates, dynamicObjects, pr)
              got == HeldBy("right")'
          IN  /\ HeldBy("left")' = n
              /\ got # n
              /\ got = NoObject <=> OtherGrabbable(pr, n) = {}
              /\ got # NoObject =>
                    /\ got \in OtherGrabbable(pr, n)
                    /\ \A m \in OtherGrabbable(pr, n) : Distance(pr, got) <= Distance(pr, m)
     ]_vars

\* Both hands started a pinch at the same place: the left one took the
\* nearest object and the right one the next nearest.
C19_Witness ==
    /\ handEvent["left"].kind = "grab"
    /\ handEvent["right"].kind = "grab"
    /\ handStates["left"].pinchPosition = handStates["right"].pinchPosition
    /\ Distance(handStates["left"].pinchPosition, HeldBy("left"))
         < Distance(handStates["right"].pinchPosition, HeldBy("right"))

\* the same tie with no other object in reach of the right hand
C19_WitnessNothing ==
    /\ handEvent["left"].kind = "grab"
    /\ handEvent["right"].kind = "miss"
    /\ handStates["left"].pinchPosition = handStates["right"].pinchPosition

\* C20: in a frame in which a hand has no valid pinch position the hand is
\* skipped: its state is unchanged, nothing is grabbed or released for it,
\* the body it holds gets no new kinematic target, and the other hand is
\* still processed.
C20_LostHandIsSkipped ==
    [][HandsProcessed =>
          \A h \in HandNames :
              handEvent'[h].kind = "skipped" =>
                  /\ handStates'[h] = handStates[h]
                  /\ HeldBy(h) # NoObject =>
                        dynamicObjects'[HeldBy(h)] = dynamicObjects[HeldBy(h)]
                  /\ \A g \in HandNames \ {h} : handEvent'[g].kind # "none"]_vars

\* The left hand lost tracking while pinching and holding an object, in a
\* frame in which the right hand grabbed another one.
C20_Witness ==
    /\ handEvent["left"].kind = "skipped"
    /\ handStates["left"].isPinching
    /\ HeldBy("left") # NoObject
    /\ handEvent["right"].kind = "grab"

(***************************************************************************)
(* Audio claims                                                            *)
(***************************************************************************)
StartSettled == pendingStarts' = pendingStarts - 1

\* C12: when playback is rejected, the pending toggleAudio / turnMusicOn
\* call returns without throwing and changes neither audioEnabled nor the
\* playback state, so audio that was disabled stays disabled and paused; a
\* later call while audio is disabled attempts playback again, and an
\* attempt that succeeds enables audio and plays the background audio.
C12_RejectedPlaybackIsRetried ==
    [][/\ (StartSettled /\ audioEvent'.result = "rejected") =>
             /\ audioEnabled' = audioEnabled
             /\ bgPlaying' = bgPlaying
             /\ ~audioEnabled => (~audioEnabled' /\ ~bgPlaying')
       /\ (StartSettled /\ audioEvent'.result = "started") =>
             /\ audioEnabled'
             /\ bgAudio => bgPlaying'
       /\ StartSettled => audioEvent'.result \in {"rejected", "started"}
       /\ (~audioEnabled /\ audioEvent'.op \in {"toggleAudio", "turnMusicOn"}
             /\ audioEvent' # audioEvent) =>
             pendingStarts' = pendingStarts + 1
      ]_vars

\* Playback was rejected, audio stayed disabled, and a later attempt
\* enabled it.
C12_Witness ==
    /\ audioEvent.result = "started"
    /\ audioEvent.retry
    /\ audioEnabled /\ bgPlaying

\* A non-looping source with a trigger radius
IsTriggered(src) == ~src.loop /\ src.triggerRadius # 0

FrameRan == audioEvent'.result = "frame"

\* C13 as stated: every frame that finds the listener within the trigger
\* radius of a loaded triggered source has the source started, whatever the
\* audio toggle says, and no such source is started twice.
C13_StartedOnEntryAlways ==
    [][\A i \in SourceIds :
          IsTriggered(spatialAudioSources[i]) =>
              /\ spatialAudioSources'[i].starts <= 1
              /\ ( /\ FrameRan
                   /\ spatialAudioSources[i].load = "loaded"
                   /\ InTriggerRange(spatialAudioSources[i], localFramePos') )
                 => spatialAudioSources'[i].starts = 1
      ]_vars

\* C13, amended: a triggered source is started by a frame that finds the
\* listener within its radius while audio is enabled, and only by such a
\* frame; a frame while audio is disabled starts nothing; the source is
\* never started a second time and a toggle never resumes it.
C13_StartedOnceWhileEnabled ==
    [][\A i \in SourceIds :
          LET src == spatialAudioSources[i]
              after == spatialAudioSources'[i]
          IN  IsTriggered(src) =>
                /\ after.starts <= 1
                /\ after.starts # src.starts =>
                      /\ FrameRan /\ audioEnabled
                      /\ src.load = "loaded" /\ ~src.triggered
                      /\ InTriggerRange(src, localFramePos')
                      /\ after.isPlaying /\ after.triggered
                /\ ( /\ FrameRan /\ audioEnabled /\ src.load = "loaded"
                     /\ InTriggerRange(src, localFramePos') )
                   => (after.starts = 1 /\ after.triggered)
                /\ (FrameRan /\ ~audioEnabled) => after = src
                /\ (src.starts = 1 /\ ~src.isPlaying) => ~after.isPlaying
      ]_vars

\* The source played to its end and the listener is again within its
\* radius with audio enabled.
C13_Witness ==
    \E i \in SourceIds :
        /\ IsTriggered(spatialAudioSources[i])
        /\ spatialAudioSources[i].starts = 1
        /\ ~spatialAudioSources[i].isPlaying
        /\ audioEnabled
        /\ audioEvent.result = "frame"
        /\ InTriggerRange(spatialAudioSources[i], localFramePos)

\* C14 as stated: every loaded looping source is playing exactly when audio
\* is enabled, and no loaded source is playing while audio is disabled.
C14_SpatialAudioFollowsToggle ==
    \A i \in LoadedSources(spatialAudioSources) :
        /\ spatialAudioSources[i].loop =>
              (spatialAudioSources[i].isPlaying <=> audioEnabled)
        /\ ~audioEnabled => ~spatialAudioSources[i].isPlaying


(***************************************************************************)
(* Lighting claims                                                         *)
(***************************************************************************)
\* C15: once a lighting config was loaded there is exactly one light per
\* entry of a known type, no debug mesh belongs to an ambient light, every
\* other light has one, and after any sequence of HUD toggles each debug
\* mesh is visible exactly when the HUD is enabled.
C15_OneLightPerKnownEntry ==
    lightingSettled \notin {"pending", "returned"} =>
        /\ lights = {i \in 1..Len(lightConfigs) : lightConfigs[i] \in KnownLightTypes}
        /\ DOMAIN lightDebugMeshes = {i \in lights : lightConfigs[i] # "ambient"}
        /\ \A i \in DOMAIN lightDebugMeshes : lightDebugMeshes[i] = hudVisible

\* The statement of C15 for the configs without a null entry
LightsOfObjectEntries ==
    (\A i \in 1..Len(lightConfigs) : lightConfigs[i] # "null") =>
        C15_OneLightPerKnownEntry

\* An ambient and a directional light were created and the HUD is shown
LightsShownWithHud ==
    /\ \E i, j \in lights : lightConfigs[i] = "ambient" /\ lightConfigs[j] = "directional"
    /\ hudVisible
    /\ lightingSettled = "resolved"

(***************************************************************************)
(* Frame callback claims                                                   *)
(***************************************************************************)
\* The stages the frame callback is said to sequence, in the stated order:
\* physics step, dynamic-object sync, character update, hand-interaction
\* update, HUD, audio triggers
StatedStages ==
    <<"updateCollisions", "updateDynamicObjects", "updateCharacterPhysics",
      "updateThrowHands", "updateHUD", "checkProximityTriggers">>

Rank(stage) == CHOOSE i \in 1..Len(StatedStages) : StatedStages[i] = stage

IsStated(stage) == \E i \in 1..Len(StatedStages) : StatedStages[i] = stage

\* The stated stages among the calls of the latest frame callback
StagesRun(log) == SelectSeq(log, IsStated)

Ran(log, stage) == \E i \in 1..Len(log) : log[i] = stage

\* A frame callback ran in this step
FrameCallbackRan == lastPhysicsTime' # lastPhysicsTime

\* The original statement of C16: a frame callback performs every stated
\* stage, once each and in the stated order.
C16_EveryStageEveryFrame ==
    lastPhysicsTime # << >> => StagesRun(frameStages) = StatedStages

\* C16: each frame callback performs the stated stages at most once each and
\* never a later stage before an earlier one; the physics step and the
\* character update run exactly when physics is enabled and the callback is
\* not the first one (the step itself needs a physics world), the object sync
\* when moreover dynamic objects are enabled, the hand-interaction update
\* exactly when dynamic objects are enabled, the HUD update exactly when the
\* HUD is enabled, and the audio trigger check in every callback.
C16_StagesInOrder ==
    [][FrameCallbackRan =>
        LET log == StagesRun(frameStages')
            physics == flags.enablePhysics /\ lastPhysicsTime # << >>
        IN  /\ \A i, j \in 1..Len(log) : i < j => Rank(log[i]) < Rank(log[j])
            /\ Ran(log, "updateCollisions") <=> physics
            /\ Ran(frameStages', "physicsWorld.step") <=> (physics /\ physicsWorld)
            /\ Ran(log, "updateDynamicObjects") <=> (physics /\ flags.enableDynamicObjects)
            /\ Ran(log, "updateCharacterPhysics") <=> physics
            /\ Ran(log, "updateThrowHands") <=> flags.enableDynamicObjects
            /\ Ran(log, "updateHUD") <=> flags.enableHUD
            /\ Ran(log, "checkProximityTriggers")
    ]_vars

\* A later frame callback with every flag enabled ran every stage, and the
\* world was stepped
C16_Witness ==
    /\ StagesRun(frameStages) = StatedStages
    /\ Ran(frameStages, "physicsWorld.step")
    /\ Ran(frameStages, "updateSDFHands")


(***************************************************************************)
(* Character body claims                                                   *)
(***************************************************************************)
\* C21: over any sequence of togglePhysics calls with a physics world, the
\* character body and its collider are created exactly once, on the first
\* enable, and never destroyed; the body exists whenever physicsEnabled is
\* true; every transition to enabled leaves the body at the camera position
\* with zero velocity; disabling changes neither the body nor its position.
C21_BodyCreatedOnceAndTeleported ==
    /\ [](/\ physicsEnabled => characterBody
          /\ characterBody <=> characterCollider
          /\ characterBodies = IF characterBody THEN 1 ELSE 0)
    /\ [][/\ characterBody => characterBody' /\ characterCollider'
          /\ (~physicsEnabled /\ physicsEnabled') =>
                /\ characterTranslation' = localFramePos
                /\ characterVelY' = 0
                /\ characterBodies' = 1
          /\ (physicsEnabled /\ ~physicsEnabled') =>
                /\ characterTranslation' = characterTranslation
                /\ characterVelY' = characterVelY
                /\ characterBodies' = characterBodies
          /\ (~characterBody /\ characterBody') => (~physicsEnabled /\ physicsEnabled')
       ]_vars

\* Physics was enabled after the camera had moved away from the origin: the
\* one body is where the camera is
C21_Witness ==
    /\ charEvent.op = "toggle"
    /\ physicsEnabled
    /\ characterBodies = 1
    /\ localFramePos = 40
    /\ characterTranslation = 40
    /\ physicsWorld


(***************************************************************************)
(* Startup sequencing claims                                               *)
(***************************************************************************)
\* C22: every load or fetch a startup step started has completed before the
\* next step begins, so a load in flight belongs to the step being awaited,
\* and none is in flight once frames are processed.
C22_LoadsCompleteBeforeNextStep ==
    /\ shipPc # "aborted" =>
          \A l \in ShipLoads : shipLoads[l] = "inflight" => StepOf(l) = shipPc
    /\ shipFrames > 0 => \A l \in ShipLoads : shipLoads[l] # "inflight"


(***************************************************************************)
(* Scripted mover claims: the waypoint index, progress, single transitions *)
(***************************************************************************)
Arrived == robotState.phase = "moving" /\ robotState'.phase = "paused"

\* C23: once the mover is loaded with waypoints, its waypoint index is within
\* [0, number of waypoints); the index changes only on a moving -> paused
\* transition, where it advances by one modulo the number of waypoints, and at
\* that transition the mover stands on the waypoint of the new index.
C23_WaypointIndexAdvances ==
    /\ []((robot /\ Len(waypoints) > 0) =>
            robotState.currentWaypointIndex \in 0..(Len(waypoints) - 1))
    /\ [][(robot /\ robot') =>
            /\ robotState'.currentWaypointIndex # robotState.currentWaypointIndex
                  => Arrived
            /\ Arrived =>
                  /\ robotState'.currentWaypointIndex =
                        (robotState.currentWaypointIndex + 1) % Len(waypoints)
                  /\ robotPosition' = At(waypoints[robotState'.currentWaypointIndex + 1])
                  /\ robotPosition' = robotState.targetPosition
       ]_vars

\* The mover has just arrived back at waypoint 0 of a three-waypoint path:
\* the index wrapped from 2 to 0
C23_Witness ==
    /\ robot
    /\ Len(waypoints) = 3
    /\ robotState.phase = "paused"
    /\ robotState.currentWaypointIndex = 0
    /\ robotState.phaseStartTime = clock
    /\ clock > 0
    /\ robotPosition = At(waypoints[1])


(***************************************************************************)
(* Velocity history claims                                                 *)
(***************************************************************************)
\* The sample a tracked frame computes for hand h
Sample(h) ==
    ((handStates'[h].pinchPosition - handStates[h].lastPosition) * 1000)
       \div (lastTime' - lastTime)

\* The history after v was pushed: the oldest of six samples is dropped
Pushed(history, v) ==
    IF Len(history) = VELOCITY_HISTORY_SIZE
      THEN Append(Tail(history), v) ELSE Append(history, v)

\* C24: a hand's velocity history never holds more than 5 samples; a frame
\* pushes a sample only for a hand with a valid pinch position whose previous
\* world pinch position is non-zero, a sixth sample evicts the oldest one,
\* and every grab and every release leaves the history empty.
C24_VelocityHistoryBounded ==
    /\ [](\A h \in HandNames :
            Len(handStates[h].velocityHistory) <= VELOCITY_HISTORY_SIZE)
    /\ [][HandsProcessed => \A h \in HandNames :
            LET before == handStates[h].velocityHistory
                after == handStates'[h].velocityHistory
                kind == handEvent'[h].kind
            IN  /\ kind \in {"grab", "release"} => after = << >>
                /\ (kind \notin {"grab", "release"}) =>
                      IF kind # "skipped" /\ handStates[h].lastPosition # 0
                        THEN after = Pushed(before, Sample(h))
                        ELSE after = before
       ]_vars

\* The left hand holds five samples, the oldest of six was dropped
C24_Witness ==
    /\ Len(handStates["left"].velocityHistory) = VELOCITY_HISTORY_SIZE
    /\ lastTime = 7 * 250


(***************************************************************************)
(* Hand state claims                                                       *)
(***************************************************************************)
\* C25: after any sequence of updateThrowHands frames a hand that holds an
\* object is recorded as pinching; a hand recorded as not pinching holds
\* nothing.
C25_HoldingImpliesPinching ==
    \A h \in HandNames :
        handStates[h].grabbedObject # NoObject => handStates[h].isPinching

\* A hand went on holding its object in a frame after the grab, and the
\* other hand ended a pinch in that frame
C25_Witness ==
    \E h, k \in HandNames :
        /\ handStates[h].grabbedObject # NoObject
        /\ handEvent[h].kind = "track"
        /\ handEvent[k].kind \in {"release", "unpinch"}


(***************************************************************************)
(* Overlapping toggleAudio calls                                           *)
(***************************************************************************)
\* C26: every toggleAudio call that completes successfully flips
\* audioEnabled, also when calls overlap: a call whose awaited startBgAudio
\* succeeds leaves audioEnabled different from what it was just before the
\* call resumed, and a call that pauses leaves it false after true, so two
\* overlapping calls together restore the value before the first.
C26_SuccessfulToggleFlips ==
    [][/\ (StartSettled /\ audioEvent'.result = "started") =>
             audioEnabled' # audioEnabled
       /\ (audioEvent'.result = "paused" /\ audioEvent' # audioEvent) =>
             (audioEnabled /\ ~audioEnabled')
      ]_vars

\* Two calls waited for startBgAudio at once while audio was disabled
C26_Witness == pendingStarts = 2 /\ ~audioEnabled

(***************************************************************************)
(* Scripted mover: progress                                                *)
(***************************************************************************)
PausedAt(i) == robotState.phase = "paused" /\ robotState.currentWaypointIndex = i

MaxWaypoints == 4

\* C27: with at least two waypoints and updateRobot called again and again
\* with increasing timestamps, the mover never gets stuck: whatever its
\* state, it will be paused at each waypoint index again, and the index
\* changes only to the next index of the list (wrapping to 0).
C27_PausedAtEveryWaypointAgain ==
    /\ \A i \in 0..(MaxWaypoints - 1) :
          []((robot /\ Len(waypoints) >= 2 /\ i < Len(waypoints)) => <>PausedAt(i))
    /\ [][robotState'.currentWaypointIndex # robotState.currentWaypointIndex =>
             robotState'.currentWaypointIndex =
                NextIndex(robotState.currentWaypointIndex, Len(waypoints))]_vars

\* The mover is paused at waypoint 0 again after a round: it faces the way
\* it came from the last waypoint, not the way it faced when it was placed
C27_Witness ==
    /\ robot
    /\ Len(waypoints) >= 2
    /\ PausedAt(0)
    /\ robotState.targetRotation =
          calculateRotationToTarget(Waypoint(waypoints, Len(waypoints) - 1),
                                    Waypoint(waypoints, 0))
    /\ robotState.targetRotation #
          calculateRotationToTarget(Waypoint(waypoints, 0), Waypoint(waypoints, 1))

(***************************************************************************)
(* Scripted mover: one transition per call                                 *)
(***************************************************************************)
\* An updateRobot call: the only step that moves the frame timestamp
UpdateRobotCalled == clock' # clock

\* The phase changes the switch of updateRobot can make
PhaseTransitions ==
    { <<"paused", "rotating">>, <<"paused", "moving">>,
      <<"rotating", "moving">>, <<"moving", "paused">> }

\* C28: one updateRobot call makes at most one phase transition: the phase
\* stays, or changes by one arrow of the switch with the phase-start
\* timestamp set to the call's timestamp, and the waypoint index moves by at
\* most one place; a call that makes no transition leaves the mover's state
\* record alone, however long the gap since the last call; a call before
\* the model is loaded or with no waypoints changes nothing.
C28_OneTransitionPerCall ==
    [][UpdateRobotCalled =>
          IF ~robot \/ Len(waypoints) = 0
            THEN UNCHANGED <<robot, waypoints, robotState, robotPosition,
                             robotRotationY>>
            ELSE /\ robotState'.phase # robotState.phase =>
                       /\ <<robotState.phase, robotState'.phase>> \in PhaseTransitions
                       /\ robotState'.phaseStartTime = clock'
                 /\ robotState'.phase = robotState.phase => robotState' = robotState
                 /\ robotState'.currentWaypointIndex \in
                       { robotState.currentWaypointIndex,
                         NextIndex(robotState.currentWaypointIndex, Len(waypoints)) }
      ]_vars

\* A call at 3500 ms found the pause at waypoint 0 long over and only began
\* the move, which starts at that call's timestamp
C28_Witness ==
    /\ robot
    /\ Len(waypoints) >= 2
    /\ robotState.phase = "moving"
    /\ robotState.currentWaypointIndex = 0
    /\ clock = 7 * 500
    /\ robotState.phaseStartTime = clock

(***************************************************************************)
(* Path waypoint claims                                                    *)
(***************************************************************************)
Shown(i) == pathVisible /\ ~pathWaypoints[i].triggered

\* C29: after any calls of updatePath, togglePath and resetPath each
\* waypoint's sphere is visible, and its ground highlight is in the edit
\* layer, exactly when the path is toggled visible and the waypoint is not
\* triggered; getRemainingWaypoints is the number of untriggered waypoints;
\* and a waypoint becomes triggered only in an updatePath call made while
\* the path is visible with the player within its trigger radius.
C29_ShownIffVisibleAndUntriggered ==
    /\ [](\A i \in DOMAIN pathWaypoints :
             /\ pathWaypoints[i].sphereVisible = Shown(i)
             /\ (i \in HighlightsOf(pathSplatEdit)) = Shown(i))
    /\ [](getRemainingWaypoints(pathWaypoints) =
             Cardinality({i \in DOMAIN pathWaypoints : ~pathWaypoints[i].triggered}))
    /\ [][\A i \in DOMAIN pathWaypoints :
             (i \in DOMAIN pathWaypoints' /\ ~pathWaypoints[i].triggered
                /\ pathWaypoints'[i].triggered) =>
                   /\ pathOp'.op = "updatePath"
                   /\ pathVisible
                   /\ InTriggerRadius(pathWaypoints[i], pathOp'.playerPosition)
       ]_vars

\* The path was hidden and shown again after one of three waypoints was
\* triggered: two spheres and their highlights are back, the third is not
C29_Witness ==
    /\ Len(pathWaypoints) = 3
    /\ pathOp.op = "togglePath"
    /\ pathVisible
    /\ pathWaypoints[1].triggered /\ ~pathWaypoints[1].sphereVisible
    /\ HighlightsOf(pathSplatEdit) = {2, 3}
    /\ pathToggle.count = 2

(***************************************************************************)
(* Dynamic-object registry claims                                          *)
(***************************************************************************)
\* An addDynamicObject call that created a body and changed the registry
BodyAdded ==
    /\ physicsOp'.op = "addDynamicObject"
    /\ physicsOp'.result = "added"
    /\ dynamicObjects' # dynamicObjects

\* C30: every body addDynamicObject creates stays referenced by one entry of
\* the registry of its own: an addition gives the registry one more entry
\* and leaves every entry it had, with the body it refers to, in place, also
\* when the name was used before.
C30_EveryBodyKeepsItsEntry ==
    [][BodyAdded =>
          /\ Cardinality(DOMAIN dynamicObjects') = Cardinality(DOMAIN dynamicObjects) + 1
          /\ \A n \in DOMAIN dynamicObjects : dynamicObjects'[n] = dynamicObjects[n]
      ]_vars

\* Two bodies were added under two names: the registry refers to both
C30_Witness ==
    /\ physicsOp.op = "addDynamicObject"
    /\ physicsOp.result = "added"
    /\ Cardinality({n \in DOMAIN dynamicObjects : dynamicObjects[n].body}) = 2
====
